---- MODULE Spec2Model ----
(***************************************************************************)
(* A model of the Cloudflare clean-IP scanner (deaduchiha/cloudflare-      *)
(* scanner).  The scanner is a set of loosely coupled stages; each stage   *)
(* is modelled as its own state machine over its own variables:            *)
(*                                                                         *)
(*   SpecPool     the worker pools of scanAllSubnets / probeRanges and of  *)
(*                runPing / runBatch                                       *)
(*   SpecMatcher  CloudflareRangeMatcher (constructor and both queries)    *)
(*   SpecStream   streamSubnets, the line filter of the large-file mode    *)
(*   SpecXray     testXrayForIps / runXrayForIp, the proxy validation      *)
(*   SpecSpeed    testDownloadSpeed, the throughput stage                  *)
(*   SpecTunnel   requestThroughProxy with httpProxyTunnel and              *)
(*                socksProxyTunnel, event by event                         *)
(*   SpecMain     main of index.ts, which runs the latency pass, the       *)
(*                speed stage and the proxy validation in turn             *)
(*   SpecProbe    runOne, the first-pass probe of one address: tcping,     *)
(*                checkConnection and checkCdnTrace, event by event        *)
(*   SpecHttpProbe  checkProbe, the connectivity probe of one sampled      *)
(*                address of a range, event by event                       *)
(*   SpecRanges   probeRanges / probeRange and the large-file              *)
(*                scanAllSubnets / scanSubnet with the samples answered    *)
(*   SpecStages   the order of the stages: one runOne call, or main        *)
(*   SpecConfig   applyAddressInConfig, the rewriting of the proxy         *)
(*                template for one candidate                               *)
(*   SpecOverlapFilter  streamSubnets with the overlap filter and the      *)
(*                catch-all test on the text of the line                   *)
(*   SpecLargeFile  main of the large-file scanner: the scan and the two   *)
(*                output files                                             *)
(*   SpecRandomIps  getRandomIps, the sampling of a range, draw by draw    *)
(*   SpecLoad     loadIPsFromRanges / chooseIPv4, block by block           *)
(*                                                                         *)
(* JavaScript runs every callback to completion, so an action is one       *)
(* synchronous stretch of code between two awaits.                         *)
(***************************************************************************)
EXTENDS Integers, Sequences, FiniteSets, TLC

VARIABLES
    \* ---- worker pools (scan-subnets.ts, probe.ts, ping.ts) ----
    poolKind,       \* "scan": scanAllSubnets / probeRanges, "ping": runPing
    subnets,        \* the candidate list handed to the pool
    routines,       \* ping.ts module variable `routines`
    routinesOpt,    \* the opts.routines last given to setPingOptions (<<>>: none)
    configured,     \* setPingOptions has been called
    concurrency,    \* number of workers the pool creates
    index,          \* the shared cursor (`index` / `next`), 0-based
    done,           \* completed count (`done`, bar.grow)
    results,        \* the results array, in push order
    wstate,         \* per worker: "idle", "probing", "exited", "threw"
    wcur,           \* per worker: the list position it is probing (0: none)
    probed,         \* per list position: how often it was handed to a probe
    fate,           \* per list position: what its sample probes met
    pstate,         \* the pool's promise: "init", "running", "resolved", "rejected"
    mainFile,       \* the program whose main() drives the pool
    exitStatus,     \* "running", or the exit status of the process: "0", "1"
    saved,          \* number of clean subnets main wrote to the output file
    \* ---- CloudflareRangeMatcher (scan-subnets.ts) ----
    cloudflareRanges, \* the CIDR strings given to the constructor
    ranges,           \* this.ranges: numeric ranges sorted by start
    target,           \* the CIDR string of the last query (<<>>: none yet)
    lastOp,           \* "none", "overlaps" or "contained"
    answer,           \* outcome of the last query
    \* ---- streamSubnets (scan-subnets.ts) ----
    fileLines,        \* the lines of the input file read so far
    cloudflareSubnets,\* the subnets kept for scanning
    processed,        \* the line counter
    streamState,      \* "idle", "open", "closed" (promise resolved)
    \* ---- testXrayForIps (xray.ts) ----
    xrayConfigPath,   \* "" or the path of the config template
    xrayTestUrl,      \* the module option, as new URL(testUrl) reads it
    xrayTemplate,     \* what the template file holds
    xrayMaxCount,     \* -xrayn
    xrIpSet,          \* the list given to testXrayForIps
    xrI,              \* the loop variable i
    xrOut,            \* out
    xrState,          \* "idle", "init", "running", "resolved", "rejected";
                      \* "pending" once an attempt can no longer settle
    xrError,          \* what the promise was rejected with
    xrReturn,         \* the list the promise resolved with
    xrSpawned,        \* attempts that wrote a config file and spawned xray
    xrTmpFiles,       \* temporary config files still on disk
    xrProcs,          \* spawned processes never sent SIGTERM
    xrAlive,          \* the attempt whose proxy process holds the inbound
                      \* port: spawned, bound, not yet exited (0: none)
    xrServedBy,       \* the last attempt and the process that accepted its
                      \* connection to the inbound port (0: none did)
    xrTurn,           \* where the turn of the loop is: at "loop" (no call of
                      \* runXrayForIp under way), or at the await of
                      \* "waitForPort" or of "request"; and whether the
                      \* spawn of the turn started a process
    \* ---- testDownloadSpeed (download.ts) ----
    disable, testCount, minSpeed,   \* the module options
    spEnv,            \* per address: what a download from it yields
    ipSet,            \* the list given, with its downloadSpeed fields
    spI,              \* the loop variable i
    spResults,        \* results
    spState,          \* "idle", "init", "running", "returned"
    spReturn,         \* the list returned
    \* ---- main (index.ts) ----
    mnState,          \* where main is: "idle", "start", "ping", "speed",
                      \* "xray", "update", "exited"
    mnIps,            \* ips = loadIPRanges()
    mnPinged,         \* number of tcping calls runPing has made
    mnPingData,       \* pingData after sorting and filtering
    mnEnv,            \* what the pings of each address came to
    mnSorted,         \* pingData after sortByDelayAndLoss, before the filters
    inputMaxDelayMs,  \* utils.ts, set from -tl
    inputMinDelayMs,  \* utils.ts, set from -tll
    mnFinal,          \* finalData as exported and printed
    mnExit,           \* "running", or the exit status: "0", "1"
    mnError,          \* what main().catch caught ("none": nothing)
    \* ---- requestThroughProxy and the tunnels (xray.ts) ----
    tnProto,          \* proxy.protocol: "socks" or "http"
    tnHttps,          \* the test URL is https: TLS is layered on the tunnel
    tnHello,          \* the bytes the server answers the SOCKS greeting with
    tnFull,           \* the complete reply the server has for the CONNECT
    tnCut,            \* how much of that reply the server actually sends
    tnPhase,          \* "idle", "connecting", "hello", "connect", "headers",
                      \* "request", "done", "hung"
    tnWire,           \* bytes sent by the server and not yet delivered
    tnBuf,            \* buf of the readUntil in progress
    tnSock,           \* the socket to the proxy: "none", "connecting",
                      \* "open", "destroyed"
    tnTunnel,         \* the tunnel promise: "pending", "resolved", "rejected"
    tnErr,            \* the Error the tunnel promise was rejected with
    tnReq,            \* the promise of requestThroughProxy
    tnElapsed,        \* the value it resolved with
    tnLast,           \* the last socket event: "none", "connect", "data",
                      \* "error", "timeout", "end"
    \* ---- runOne: the first-pass probe of one address (ping.ts) ----
    pbServer,         \* what listens at the address
    traceUrl,         \* the module option, as new URL(traceUrl) reads it
    skipTrace,        \* the module option
    pbPhase,          \* "idle", "loop", "tcping", "trace", "settled"
    pbI,              \* i of the loop of checkConnection
    pbRecv,           \* recv
    pbTotalDelayMs,   \* totalDelayMs
    pbPings,          \* what each tcping resolved with, and on which event
    pbSock,           \* the socket of tcping: "none", "connecting",
                      \* "destroyed"
    pbReq,            \* the trace request: "none", "sent", "body", "done",
                      \* "destroyed", and "ended" (destroyed with its
                      \* 'end' still to be emitted)
    pbTimer,          \* the idle timer of the socket in use: "off",
                      \* "armed", "fired"
    pbData,           \* data of checkCdnTrace
    pbTraceOk,        \* what checkCdnTrace resolved with
    pbTraceMs,        \* how long it took to resolve
    pbOutcome,        \* runOne: "pending", "null", "accepted"
    pbRecord,         \* the record runOne returned
    pbGrown,          \* bar.grow(1) calls of runOne: the completed count
    \* ---- checkProbe: the connectivity probe of one sampled address ----
    hpUrl,            \* the probe URL given on the command line
    hpSni,            \* servername of tls.connect, "" while there is none
    hpTrace,          \* probe.isTraceEndpoint
    hpTls,            \* probe.port === 443
    hpResp,           \* the response the server has for the request
    hpCut,            \* how much of it the server sends
    hpPhase,          \* "idle", "connecting", "tls", "request"
    hpWire,           \* tokens sent by the server and not yet delivered
    hpBuf,            \* data.buf
    hpSock,           \* "none", "connecting", "open", "ended", "destroyed"
    hpTimer,          \* the timer of setTimeout: "off", "armed", "cleared",
                      \* "fired"
    hpClock,          \* Date.now() - start
    hpActive,         \* the time of the last activity on the socket
    hpResolved,       \* resolved
    hpOk,             \* ok of the value the promise resolved with
    hpLatencyMs,      \* latencyMs of that value
    hpCause,          \* the listener that resolved it: "data", "end",
                      \* "error", "timeout"
    \* --- range probing: probeRanges (probe.ts), scanAllSubnets ---
    rgMode,          \* "standard" (probe.ts) or "largeFile" (scan-subnets.ts)
    rgCidrs,         \* the entries handed to the function
    rgValid,         \* `valid`: the entries that are probed
    rgIndex,         \* `index`: the shared cursor of the workers
    rgDone,          \* `done`: the count reported through onProgress
    rgResults,       \* `results`, in completion order
    rgCur,           \* per worker: the position it awaits, 0 when it returned
    rgAnswers,       \* per position: what its sampled addresses answered
    rgOrder,         \* the positions in the order their probes completed
    rgPhase,         \* "init", "running", "returned"
    rgOut,           \* the value the function returned
    rgFile,          \* the subnets listed in clean-ips.txt / clean-ips-plain.txt
    \* --- applyAddressInConfig (proxy template rewriting) ---
    cfConfig,        \* the parsed template handed to applyAddressInConfig
    cfIp,            \* the candidate address
    cfResult,        \* the template after the call
    cfState,         \* "init", "applied"
    \* --- getRandomIps (probe.ts, scan-subnets.ts) ---
    grFile,          \* the version called: "probe.ts" or "scan-subnets.ts"
    grCidr,          \* the CIDR handed to getRandomIps
    grCount,         \* `count`
    grI,             \* `i`, the loop counter
    grSeen,          \* `seen`
    grIps,           \* `ips`
    grState,         \* "init", "loop", "returned"
    \* --- loadIPsFromRanges / chooseIPv4 (part_009) ---
    ldLine,          \* the entry of `cidrs` being expanded
    ldN,             \* `n`, the start of the /24 block the loop is at
    ldIps,           \* `ips`, the addresses produced
    ldState          \* "init", "loop", "returned"

poolVars == <<poolKind, subnets, routines, routinesOpt, configured,
              concurrency, index, done, results, wstate, wcur, probed, fate,
              pstate, mainFile, exitStatus, saved>>

matchVars == <<cloudflareRanges, ranges, target, lastOp, answer>>

streamVars == <<fileLines, cloudflareSubnets, processed, streamState>>

xrVars == <<xrayConfigPath, xrayTestUrl, xrayTemplate, xrayMaxCount, xrIpSet, xrI, xrOut,
            xrState, xrError, xrReturn, xrSpawned, xrTmpFiles, xrProcs,
            xrAlive, xrServedBy, xrTurn>>

spVars == <<disable, testCount, minSpeed, spEnv, ipSet, spI, spResults,
            spState, spReturn>>

mnVars == <<mnState, mnIps, mnPinged, mnPingData, mnFinal, mnExit, mnError,
            mnEnv, mnSorted, inputMaxDelayMs, inputMinDelayMs>>

tnVars == <<tnProto, tnHttps, tnHello, tnFull, tnCut, tnPhase, tnWire, tnBuf,
            tnSock, tnTunnel, tnErr, tnReq, tnElapsed, tnLast>>

pbVars == <<pbServer, traceUrl, skipTrace, pbPhase, pbI, pbRecv, pbTotalDelayMs, pbPings,
            pbSock, pbReq, pbTimer, pbData, pbTraceOk, pbTraceMs, pbOutcome,
            pbRecord, pbGrown>>

hpVars == <<hpUrl, hpSni, hpTrace, hpTls, hpResp, hpCut, hpPhase, hpWire, hpBuf, hpSock,
            hpTimer, hpClock, hpActive, hpResolved, hpOk, hpLatencyMs,
            hpCause>>

rgVars == <<rgMode, rgCidrs, rgValid, rgIndex, rgDone, rgResults, rgCur,
            rgAnswers, rgOrder, rgPhase, rgOut, rgFile>>

cfVars == <<cfConfig, cfIp, cfResult, cfState>>

grVars == <<grFile, grCidr, grCount, grI, grSeen, grIps, grState>>

ldVars == <<ldLine, ldN, ldIps, ldState>>

vars == <<poolVars, matchVars, streamVars, xrVars, spVars, mnVars, tnVars,
          pbVars, hpVars, rgVars, cfVars, grVars, ldVars>>

\* ------------------------------------------------------------------------
\* Bounds of the model
\* ------------------------------------------------------------------------
MaxItems == 3       \* longest candidate list
MaxPool == 2        \* largest pool size tried besides the configured ones
PingTimes == 2      \* configured number of pings per address (-t)
AddrBits == 2       \* width of an address (the source has 32 bits)
MaxRanges == 3      \* longest reference list given to the matcher
MaxLines == 2       \* longest input file, in lines
MaxXrayIps == 3     \* longest list given to the proxy validation
MaxIps == 16        \* longest list given to the speed stage
MaxFast == 1        \* most addresses that download at full speed
MaxSlow == 1        \* most addresses that download slowly
MaxMainIps == 2     \* longest address list loaded by main
MaxDomain == 5      \* longest bound domain name in a SOCKS5 reply

\* ------------------------------------------------------------------------
\* Generic helpers
\* ------------------------------------------------------------------------
Min(a, b) == IF a < b THEN a ELSE b
Max(a, b) == IF a > b THEN a ELSE b

\* ========================================================================
\* Stages that are not part of the specification being checked stay idle
\* ========================================================================
NoAnswer == [value |-> FALSE, reads |-> {}, threw |-> FALSE]

PoolIdle ==
    /\ poolKind = "none"
    /\ subnets = <<>>
    /\ routines = 0
    /\ routinesOpt = <<>>
    /\ configured = FALSE
    /\ concurrency = 0
    /\ index = 0
    /\ done = 0
    /\ results = <<>>
    /\ wstate = <<>>
    /\ wcur = <<>>
    /\ probed = <<>>
    /\ fate = <<>>
    /\ pstate = "idle"
    /\ mainFile = "none"
    /\ exitStatus = "running"
    /\ saved = 0

MatchIdle ==
    /\ cloudflareRanges = <<>>
    /\ ranges = <<>>
    /\ target = <<>>
    /\ lastOp = "none"
    /\ answer = NoAnswer

StreamIdle ==
    /\ fileLines = <<>>
    /\ cloudflareSubnets = <<>>
    /\ processed = 0
    /\ streamState = "idle"

NoAttempt == [attempt |-> 0, proc |-> 0]
NoTurn == [at |-> "loop", spawned |-> FALSE]

XrayIdle ==
    /\ xrayConfigPath = ""
    /\ xrayTestUrl = [protocol |-> "https:"]
    /\ xrayTemplate = "none"
    /\ xrayMaxCount = 0
    /\ xrIpSet = <<>>
    /\ xrI = 0
    /\ xrOut = <<>>
    /\ xrState = "idle"
    /\ xrError = "none"
    /\ xrReturn = <<>>
    /\ xrSpawned = 0 /\ xrTmpFiles = 0 /\ xrProcs = 0
    /\ xrAlive = 0 /\ xrServedBy = NoAttempt /\ xrTurn = NoTurn

SpeedIdle ==
    /\ disable = FALSE
    /\ testCount = 0
    /\ minSpeed = 0
    /\ spEnv = <<>>
    /\ ipSet = <<>>
    /\ spI = 0
    /\ spResults = <<>>
    /\ spState = "idle"
    /\ spReturn = <<>>

MainIdle ==
    /\ mnState = "idle"
    /\ mnIps = <<>>
    /\ mnPinged = 0
    /\ mnPingData = <<>>
    /\ mnFinal = <<>>
    /\ mnExit = "running"
    /\ mnError = "none"
    /\ mnEnv = <<>>
    /\ mnSorted = <<>>
    /\ inputMaxDelayMs = 9999
    /\ inputMinDelayMs = 0

TunnelIdle ==
    /\ tnProto = "none"
    /\ tnHttps = FALSE
    /\ tnHello = <<>>
    /\ tnFull = <<>>
    /\ tnCut = 0
    /\ tnPhase = "idle"
    /\ tnWire = <<>>
    /\ tnBuf = <<>>
    /\ tnSock = "none"
    /\ tnTunnel = "pending"
    /\ tnErr = "none"
    /\ tnReq = "pending"
    /\ tnElapsed = 0
    /\ tnLast = "none"

NoRecord == [sent |-> 0, received |-> 0, totalDelayMs |-> 0]

ProbeIdle ==
    /\ pbServer = "none" /\ traceUrl = [protocol |-> "https:"]
    /\ skipTrace = FALSE
    /\ pbPhase = "idle" /\ pbI = 0 /\ pbRecv = 0 /\ pbTotalDelayMs = 0
    /\ pbPings = <<>> /\ pbSock = "none" /\ pbReq = "none"
    /\ pbTimer = "off" /\ pbData = <<>> /\ pbTraceOk = "pending"
    /\ pbTraceMs = 0 /\ pbOutcome = "pending" /\ pbRecord = NoRecord
    /\ pbGrown = 0

HttpProbeIdle ==
    /\ hpUrl = <<>> /\ hpSni = ""
    /\ hpTrace = FALSE /\ hpTls = FALSE /\ hpResp = <<>> /\ hpCut = 0
    /\ hpPhase = "idle" /\ hpWire = <<>> /\ hpBuf = <<>> /\ hpSock = "none"
    /\ hpTimer = "off" /\ hpClock = 0 /\ hpActive = 0
    /\ hpResolved = FALSE /\ hpOk = FALSE /\ hpLatencyMs = 0
    /\ hpCause = "none"

\* The range prober has not been called.
RangesIdle ==
    /\ rgMode = "standard"
    /\ rgCidrs = <<>>
    /\ rgValid = <<>>
    /\ rgIndex = 0
    /\ rgDone = 0
    /\ rgResults = <<>>
    /\ rgCur = <<>>
    /\ rgAnswers = <<>>
    /\ rgOrder = <<>>
    /\ rgPhase = "init"
    /\ rgOut = <<>>
    /\ rgFile = <<>>

\* No template is being rewritten.
ConfigIdle ==
    /\ cfConfig = <<>>
    /\ cfIp = ""
    /\ cfResult = <<>>
    /\ cfState = "idle"

\* getRandomIps has not been called.
RandomIpsIdle ==
    /\ grFile = "" /\ grCidr = <<>> /\ grCount = 0 /\ grI = 0
    /\ grSeen = {} /\ grIps = <<>> /\ grState = "idle"

\* loadIPsFromRanges has not been called.
LoadIdle ==
    /\ ldLine = <<>> /\ ldN = 0 /\ ldIps = <<>> /\ ldState = "idle"

\* ========================================================================
\* WORKER POOLS
\* ========================================================================

\* scan-subnets.ts CONFIG
CONCURRENCY == 100
SAMPLES_PER_RANGE == 3
MinRateNum == 1          \* MIN_SUCCESS_RATE = 0.5 = 1/2
MinRateDen == 2
MAX_AVG_LATENCY == 3000
\* ping.ts
DefaultRoutines == 10
MaxRoutines == 1000

ScanTimeoutMs == 4000     \* CONFIG.TIMEOUT_MS
\* Latency of a slow success: above MAX_AVG_LATENCY and below the hard timer
\* of checkCloudflareTrace, which resolves false at CONFIG.TIMEOUT_MS.
SlowOkMs == MAX_AVG_LATENCY + 500

\* What can happen to one sampled address of a subnet.
SampleEvents == {"okFast", "okSlow", "connError", "timeout", "tlsError", "noMarkers"}

\* Values of opts.routines handed to setPingOptions.
RoutineInputs == {-1, 0, 1, 2, 3, 1001}

\* Pool sizes of the scan pool: the configured constant and small ones.
PoolSizes == (1..MaxPool) \cup {CONCURRENCY}

\* `index++` / `next++`: the value the shared cursor has after a claim.
PostIncrementStuck(x) == x
PostIncrement(x) == x + 1

\* Math.min(1000, Math.max(1, opts.routines))
ClampRoutinesSwapped(r) == Max(MaxRoutines, Min(1, r))
ClampRoutines(r) == Min(MaxRoutines, Max(1, r))

\* checkCloudflareTrace: how the promise of one sampled address settles.
\* Every path of the source ends in done(ok), which resolves.
checkCloudflareTraceRejecting(ev) ==
    IF ev = "connError"
    THEN [settled |-> "rejected", ok |-> FALSE, latencyMs |-> 0]
    ELSE [settled |-> "resolved", ok |-> ev \in {"okFast", "okSlow"},
          latencyMs |-> IF ev = "okSlow" THEN SlowOkMs ELSE 100]
checkCloudflareTrace(ev) ==
    [settled |-> "resolved",
     ok |-> ev \in {"okFast", "okSlow"},
     latencyMs |-> CASE ev = "okFast" -> 100
                     [] ev = "okSlow" -> SlowOkMs
                     [] ev = "timeout" -> ScanTimeoutMs
                     [] OTHER -> 50]

RECURSIVE SumLatency(_, _)
SumLatency(rs, k) ==
    IF k = 0 THEN 0
    ELSE (IF rs[k].ok THEN rs[k].latencyMs ELSE 0) + SumLatency(rs, k - 1)

\* scanSubnet after Promise.all: the ScanResult of one subnet from the
\* settled sample probes rs (a sequence of {ok, latencyMs}); avgLatency is
\* kept as the fraction latSum / latDen.
scanSubnet(cidr, rs) ==
    LET successes == Cardinality({k \in 1..Len(rs) : rs[k].ok})
        latSum == SumLatency(rs, Len(rs))
    IN  IF Len(rs) = 0 \/ successes = 0
        THEN [cidr |-> cidr, successes |-> 0, latSum |-> 0, latDen |-> 1,
              passed |-> FALSE]
        ELSE [cidr |-> cidr, successes |-> successes,
              latSum |-> latSum, latDen |-> successes,
              passed |-> /\ successes * MinRateDen >= MinRateNum * Len(rs)
                         /\ latSum <= MAX_AVG_LATENCY * successes]

\* runOne: the CloudflareIPData of one address; null (here the empty
\* sequence) when no ping came back, else a one-element sequence.
runOne(ip, recv) ==
    IF recv = 0 THEN <<>>
    ELSE <<[cidr |-> ip, successes |-> recv, passed |-> TRUE]>>

\* The synchronous part of one worker of scanAllSubnets / probeRanges, from
\* the loop head to its next await (or to its return).
WorkerLoopScan(st, w) ==
    IF st.index < Len(subnets)
    THEN LET i == st.index
         IN  [index |-> PostIncrement(st.index),
              wstate |-> [st.wstate EXCEPT ![w] = "probing"],
              wcur |-> [st.wcur EXCEPT ![w] = i + 1],
              probed |-> [st.probed EXCEPT ![i + 1] = @ + 1]]
    ELSE [st EXCEPT !.wstate[w] = "exited", !.wcur[w] = 0]

\* The synchronous part of one worker of runBatch.
WorkerLoopPing(st, w) ==
    LET i == st.index
    IN  IF i >= Len(subnets)
        THEN [st EXCEPT !.index = PostIncrement(st.index),
                        !.wstate[w] = "exited", !.wcur[w] = 0]
        ELSE [index |-> PostIncrement(st.index),
              wstate |-> [st.wstate EXCEPT ![w] = "probing"],
              wcur |-> [st.wcur EXCEPT ![w] = i + 1],
              probed |-> [st.probed EXCEPT ![i + 1] = @ + 1]]

WorkerLoop(st, w) ==
    IF poolKind = "scan" THEN WorkerLoopScan(st, w) ELSE WorkerLoopPing(st, w)

\* Array.from({ length: c }, () => worker()): the workers w..c are started
\* one after the other, each running up to its first await.  The run is
\* evaluated in two halves: the workers of the first half have all left the
\* idle state before the first worker of the second half is started.
RECURSIVE Launch(_, _, _)
Launch(st, w, c) ==
    IF w > c THEN st
    ELSE IF w = c THEN WorkerLoop(st, w)
    ELSE LET first == Launch(st, w, (w + c) \div 2)
         IN  IF first.wstate[(w + c) \div 2] = "idle" THEN first
             ELSE Launch(first, (w + c) \div 2 + 1, c)

\* What the sample probes of one subnet met, taken from the events.
SampleFate(evs) ==
    IF Len(evs) = 0 THEN "noSample"
    ELSE IF \A k \in 1..Len(evs) : evs[k] \notin {"okFast", "okSlow"}
         THEN "allFailed" ELSE "someOk"

PoolState == [index |-> index, wstate |-> wstate, wcur |-> wcur, probed |-> probed]

SetPoolState(st) ==
    /\ index' = st.index
    /\ wstate' = st.wstate
    /\ wcur' = st.wcur
    /\ probed' = st.probed

Workers == 1..concurrency

\* The programs that run a pool: two versions of the subnet scanner's main
\* drive scanAllSubnets, the main of index.ts drives runPing.
MainFiles(kind) ==
    IF kind = "scan" THEN {"scan-subnets.ts", "part_001"} ELSE {"index.ts"}

PoolInit ==
    /\ poolKind \in {"scan", "ping"}
    /\ \E n \in 0..MaxItems : subnets = [k \in 1..n |-> k]
    /\ routines = DefaultRoutines
    /\ routinesOpt = <<>>
    /\ configured = FALSE
    /\ concurrency \in (IF poolKind = "scan" THEN PoolSizes ELSE {0})
    /\ index = 0
    /\ done = 0
    /\ results = <<>>
    /\ wstate = [w \in 1..concurrency |-> "idle"]
    /\ wcur = [w \in 1..concurrency |-> 0]
    /\ probed = [k \in 1..Len(subnets) |-> 0]
    /\ fate = [k \in 1..Len(subnets) |-> "pending"]
    /\ pstate = "init"
    /\ mainFile \in MainFiles(poolKind)
    /\ exitStatus = "running"
    /\ saved = 0
    /\ MatchIdle /\ StreamIdle /\ XrayIdle /\ SpeedIdle /\ MainIdle /\ TunnelIdle
    /\ ProbeIdle /\ HttpProbeIdle /\ RangesIdle /\ ConfigIdle /\ RandomIpsIdle
    /\ LoadIdle

\* setPingOptions({ routines })
SetPingOptions ==
    /\ poolKind = "ping" /\ pstate = "init" /\ ~configured
    /\ \/ UNCHANGED <<routines, routinesOpt>>    \* opts.routines undefined
       \/ \E r \in RoutineInputs :
            /\ routines' = ClampRoutines(r)
            /\ routinesOpt' = <<r>>
    /\ configured' = TRUE
    /\ UNCHANGED <<poolKind, subnets, concurrency, index, done, results,
                   wstate, wcur, probed, fate, pstate>>
    /\ UNCHANGED <<mainFile, exitStatus, saved>>
    /\ UNCHANGED <<matchVars, streamVars, xrVars, spVars, mnVars, tnVars,
                   pbVars, hpVars, rgVars, cfVars, grVars, ldVars>>

\* scanAllSubnets up to `await Promise.all(workers)`
StartScan ==
    /\ poolKind = "scan" /\ pstate = "init"
    /\ SetPoolState(Launch(PoolState, 1, concurrency))
    /\ pstate' = "running"
    /\ UNCHANGED <<poolKind, subnets, routines, routinesOpt, configured,
                   concurrency, done, results, fate>>
    /\ UNCHANGED <<mainFile, exitStatus, saved>>
    /\ UNCHANGED <<matchVars, streamVars, xrVars, spVars, mnVars, tnVars,
                   pbVars, hpVars, rgVars, cfVars, grVars, ldVars>>

\* runPing and runBatch up to `await Promise.all(workers)`
StartPing ==
    /\ poolKind = "ping" /\ pstate = "init" /\ configured
    /\ IF Len(subnets) = 0
       THEN /\ pstate' = "resolved"
            /\ UNCHANGED <<concurrency, index, wstate, wcur, probed>>
       ELSE LET c == Min(routines, Len(subnets))
                st0 == [index |-> 0,
                        wstate |-> [w \in 1..c |-> "idle"],
                        wcur |-> [w \in 1..c |-> 0],
                        probed |-> probed]
            IN  /\ concurrency' = c
                /\ SetPoolState(Launch(st0, 1, c))
                /\ pstate' = "running"
    /\ UNCHANGED <<poolKind, subnets, routines, routinesOpt, configured, done,
                   results, fate>>
    /\ UNCHANGED <<mainFile, exitStatus, saved>>
    /\ UNCHANGED <<matchVars, streamVars, xrVars, spVars, mnVars, tnVars,
                   pbVars, hpVars, rgVars, cfVars, grVars, ldVars>>

\* A worker of scanAllSubnets resumes after `await scanSubnet(cidr)`:
\* the sample probes of its subnet have settled.
ScanComplete ==
    /\ poolKind = "scan" /\ pstate \in {"running", "rejected"}
    /\ \E w \in Workers :
         /\ wstate[w] = "probing"
         /\ \E ns \in 0..SAMPLES_PER_RANGE :
            \E evs \in [1..ns -> SampleEvents] :
              LET rs == [k \in 1..ns |-> checkCloudflareTrace(evs[k])]
              IN
              /\ fate' = [fate EXCEPT ![wcur[w]] = SampleFate(evs)]
              /\  IF \E k \in 1..ns : rs[k].settled = "rejected"
                  THEN \* the await throws: the worker's promise rejects
                       /\ wstate' = [wstate EXCEPT ![w] = "threw"]
                       /\ wcur' = [wcur EXCEPT ![w] = 0]
                       /\ pstate' = "rejected"
                       /\ UNCHANGED <<index, probed, results, done>>
                       /\ UNCHANGED saved
                  ELSE /\ results' = Append(results, scanSubnet(subnets[wcur[w]], rs))
                       /\ done' = done + 1
                       \* if (result.passed) onClean?.(result): the other
                       \* version of main appends the subnet to the output
                       \* files at once (fs.appendFileSync); scan-subnets.ts
                       \* passes no onClean.
                       /\ saved' = IF mainFile = "part_001"
                                      /\ scanSubnet(subnets[wcur[w]], rs).passed
                                   THEN saved + 1 ELSE saved
                       /\ SetPoolState(WorkerLoop(PoolState, w))
                       /\ UNCHANGED pstate
    /\ UNCHANGED <<poolKind, subnets, routines, routinesOpt, configured,
                   concurrency>>
    /\ UNCHANGED <<mainFile, exitStatus>>
    /\ UNCHANGED <<matchVars, streamVars, xrVars, spVars, mnVars, tnVars,
                   pbVars, hpVars, rgVars, cfVars, grVars, ldVars>>

\* A worker of runBatch resumes after `await runOne(ips[i], bar)`
PingComplete ==
    /\ poolKind = "ping" /\ pstate = "running"
    /\ \E w \in Workers :
         /\ wstate[w] = "probing"
         /\ \E recv \in 0..PingTimes :
              LET one == runOne(subnets[wcur[w]], recv)
              IN  /\ done' = done + 1
                  /\ results' = results \o one
                  /\ fate' = [fate EXCEPT ![wcur[w]] =
                                 IF recv = 0 THEN "allFailed" ELSE "someOk"]
                  /\ SetPoolState(WorkerLoop(PoolState, w))
    /\ UNCHANGED <<poolKind, subnets, routines, routinesOpt, configured,
                   concurrency, pstate>>
    /\ UNCHANGED <<mainFile, exitStatus, saved>>
    /\ UNCHANGED <<matchVars, streamVars, xrVars, spVars, mnVars, tnVars,
                   pbVars, hpVars, rgVars, cfVars, grVars, ldVars>>

\* `await Promise.all(workers)` resolves once every worker has returned
PoolResolve ==
    /\ pstate = "running"
    /\ \A w \in Workers : wstate[w] = "exited"
    /\ pstate' = "resolved"
    /\ UNCHANGED <<poolKind, subnets, routines, routinesOpt, configured,
                   concurrency, index, done, results, wstate, wcur, probed, fate>>
    /\ UNCHANGED <<mainFile, exitStatus, saved>>
    /\ UNCHANGED <<matchVars, streamVars, xrVars, spVars, mnVars, tnVars,
                   pbVars, hpVars, rgVars, cfVars, grVars, ldVars>>

\* cleanResults = scanResults.filter((r) => r.passed)
cleanResults(rs) == {k \in 1..Len(rs) : rs[k].passed}

\* process.exit(1) of scan-subnets.ts when nothing is clean; the other
\* version of main writes an empty output and returns.
ExitOnNoClean(file) == IF file = "scan-subnets.ts" THEN "1" ELSE "0"

\* main of the subnet scanner after `await scanAllSubnets(...)`: the OUTPUT
\* section, up to the end of main.
ScanMainOutput ==
    /\ poolKind = "scan" /\ pstate = "resolved" /\ exitStatus = "running"
    \* scan-subnets.ts, and the default mode of the other version, have left
    \* earlier when they found no subnet; with --all the other version scans
    \* the empty list and comes here.
    /\ subnets = <<>> => mainFile = "part_001"
    /\ LET clean == cleanResults(results)
       IN  IF clean = {}
           THEN /\ exitStatus' = ExitOnNoClean(mainFile)
                /\ saved' = 0
           ELSE /\ exitStatus' = "0"
                \* scan-subnets.ts writes the files now; the other version
                \* only puts the count into the header of what onClean wrote
                /\ saved' = IF mainFile = "part_001" THEN saved
                            ELSE Cardinality(clean)
    /\ UNCHANGED <<poolKind, subnets, routines, routinesOpt, configured,
                   concurrency, index, done, results, wstate, wcur, probed,
                   fate, pstate, mainFile>>
    /\ UNCHANGED <<matchVars, streamVars, xrVars, spVars, mnVars, tnVars,
                   pbVars, hpVars, rgVars, cfVars, grVars, ldVars>>

PoolNext ==
    \/ ScanMainOutput
    \/ SetPingOptions
    \/ StartScan
    \/ StartPing
    \/ ScanComplete
    \/ PingComplete
    \/ PoolResolve

SpecPool == PoolInit /\ [][PoolNext]_vars

\* ---- claims about the worker pools -------------------------------------

Started == {k \in 1..Len(subnets) : probed[k] > 0}
Probing == {w \in Workers : wstate[w] = "probing"}
Recorded(i) == {k \in 1..Len(results) : results[k].cidr = subnets[i]}

\* C1: every list position is handed to exactly one worker (never probed
\* twice, no two workers hold the same position), and when the pool has
\* finished every position was probed once and the completed count equals
\* the length of the list.
C1_ExactlyOnce ==
    /\ \A k \in 1..Len(subnets) : probed[k] <= 1
    /\ \A k \in 1..Len(subnets) : Cardinality({w \in Workers : wcur[w] = k}) <= 1
    /\ pstate = "resolved" =>
         /\ \A k \in 1..Len(subnets) : probed[k] = 1
         /\ done = Len(subnets)

\* C1 witness: a finished pool in which a worker had to take more than
\* one candidate.
C1_Witness ==
    /\ pstate = "resolved"
    /\ concurrency > 1
    /\ Len(subnets) > concurrency
    /\ done = Len(subnets)

\* C2: in runPing the number of candidates in flight never exceeds
\* min(routines, number of candidates), routines being the configured
\* value clamped into 1..1000 (10 when not configured); every candidate in
\* flight is held by exactly one worker, which holds nothing else.
C2_BoundedInFlight ==
    poolKind = "ping" =>
      LET r == IF routinesOpt = <<>> THEN 10
               ELSE IF routinesOpt[1] < 1 THEN 1
               ELSE IF routinesOpt[1] > 1000 THEN 1000
               ELSE routinesOpt[1]
          limit == IF r < Len(subnets) THEN r ELSE Len(subnets)
          inFlight == Cardinality(Started) - done
      IN  /\ inFlight <= limit
          /\ inFlight = Cardinality(Probing)
          /\ \A w \in Probing : wcur[w] \in Started /\ fate[wcur[w]] = "pending"

\* C2 witness: the pool is saturated below the length of the list, after a
\* worker has already moved on to its second candidate.
C2_Witness ==
    /\ poolKind = "ping" /\ pstate = "running"
    /\ routinesOpt = <<2>>
    /\ Len(subnets) = 3
    /\ Cardinality(Probing) = 2
    /\ done = 1

\* C3: in the first-pass pool a candidate all of whose sample probes
\* failed is recorded once as not passed, no probe failure rejects the
\* pool or kills a worker, and a finished pool has recorded every candidate.
C3_FailureIsLocal ==
    poolKind = "scan" =>
      /\ pstate # "rejected"
      /\ \A w \in Workers : wstate[w] # "threw"
      /\ \A i \in 1..Len(subnets) :
           fate[i] = "allFailed" =>
             /\ Cardinality(Recorded(i)) = 1
             /\ \A k \in Recorded(i) : ~results[k].passed
      /\ pstate = "resolved" =>
           \A i \in 1..Len(subnets) : Cardinality(Recorded(i)) = 1

\* C3 witness: a finished pool with a candidate whose probes all failed
\* and a later candidate that passed.
C3_Witness ==
    /\ poolKind = "scan" /\ pstate = "resolved"
    /\ \E i \in 1..Len(subnets) : \E j \in 1..Len(subnets) :
         /\ fate[i] = "allFailed"
         /\ i < j
         /\ \E k \in Recorded(j) : results[k].passed


\* ========================================================================
\* CLOUDFLARE RANGE MATCHER
\* ========================================================================
\* An address string is a sequence of AddrBits parts; the four octets of
\* the dotted quad are scaled to AddrBits parts of one bit each.  A CIDR
\* string is [fam, addr, prefix]; fam "v6" is an IPv6 CIDR, fam "bad" a
\* string IpCidr refuses.

RECURSIVE Pow2(_)
Pow2(n) == IF n = 0 THEN 1 ELSE 2 * Pow2(n - 1)

\* 0xffffffff, the last address
ALL_ONES == Pow2(AddrBits) - 1

ZeroAddr == [k \in 1..AddrBits |-> 0]
Addrs == [1..AddrBits -> {0, 1}]

V4Cidrs == [fam : {"v4"}, addr : Addrs, prefix : 0..AddrBits]
V6Cidr == [fam |-> "v6", addr |-> ZeroAddr, prefix |-> 0]
BadCidr == [fam |-> "bad", addr |-> ZeroAddr, prefix |-> 0]

\* CIDR strings as the published lists carry them: host bits zero
AlignedCidrs == {c \in V4Cidrs : \A k \in 1..AddrBits : k > c.prefix => c.addr[k] = 0}

RefEntries == AlignedCidrs \cup {V6Cidr, BadCidr}
Candidates == V4Cidrs \cup {V6Cidr, BadCidr}

RECURSIVE SeqsUpTo(_, _)
SeqsUpTo(S, n) ==
    IF n = 0 THEN {<<>>}
    ELSE LET shorter == SeqsUpTo(S, n - 1)
         IN  shorter \cup {Append(q, x) : q \in {r \in shorter : Len(r) = n - 1}, x \in S}

\* ipv4ToNum: ((parts[0] << 24) | (parts[1] << 16) | ...) >>> 0
RECURSIVE ipv4ToNumUpTo(_, _)
ipv4ToNumUpTo(parts, k) ==
    IF k = 0 THEN 0 ELSE 2 * ipv4ToNumUpTo(parts, k - 1) + parts[k]
ipv4ToNum(parts) == ipv4ToNumUpTo(parts, Len(parts))

\* IpCidr.start() / IpCidr.end(): the address with the host bits cleared / set
CidrStart(c) == [k \in 1..AddrBits |-> IF k <= c.prefix THEN c.addr[k] ELSE 0]
CidrEnd(c) == [k \in 1..AddrBits |-> IF k <= c.prefix THEN c.addr[k] ELSE 1]

\* cidrToRange: <<>> stands for null
cidrToRange(c) ==
    IF c.fam = "bad" THEN <<>>                  \* new IpCidr throws
    ELSE IF c.fam = "v6" THEN <<>>              \* !startIp.includes(".")
    ELSE <<[start |-> ipv4ToNum(CidrStart(c)), end |-> ipv4ToNum(CidrEnd(c))]>>

rangesOverlap(a, b) == a.start <= b.end /\ b.start <= a.end

rangeContainedInEndOnly(inner, outer) == inner.end <= outer.end
rangeContainedIn(inner, outer) == inner.start >= outer.start /\ inner.end <= outer.end

\* target.start === 0 && target.end === 0xffffffff
IsCatchAllNever(t) == FALSE
IsCatchAll(t) == t.start = 0 /\ t.end = ALL_ONES

\* Array.prototype.sort((a, b) => a.start - b.start): stable
RECURSIVE InsertByStart(_, _)
InsertByStart(sorted, r) ==
    IF sorted = <<>> THEN <<r>>
    ELSE IF sorted[Len(sorted)].start <= r.start THEN Append(sorted, r)
    ELSE Append(InsertByStart(SubSeq(sorted, 1, Len(sorted) - 1), r), sorted[Len(sorted)])

RECURSIVE SortByStart(_)
SortByStart(rs) ==
    IF rs = <<>> THEN <<>>
    ELSE InsertByStart(SortByStart(SubSeq(rs, 1, Len(rs) - 1)), rs[Len(rs)])

\* the constructor's loop: parse and push
RECURSIVE ParseAll(_)
ParseAll(cidrs) ==
    IF cidrs = <<>> THEN <<>>
    ELSE LET c == cidrs[Len(cidrs)]
             r == cidrToRange(c)
         IN  ParseAll(SubSeq(cidrs, 1, Len(cidrs) - 1)) \o
             (IF r = <<>> THEN <<>>
              ELSE <<[start |-> r[1].start, end |-> r[1].end, cidr |-> c]>>)

CloudflareRangeMatcher(cidrs) == SortByStart(ParseAll(cidrs))

\* The key the binary search compares with target.start
SearchKeyStart(r) == r.start
SearchKey(r) == r.end

\* while (left < right) { mid = floor((left + right) / 2); ... }
\* Indices are 0-based as in the source; `reads` collects the indices of
\* this.ranges the code reads, `threw` is set by a read outside the array.
RECURSIVE BinarySearch(_, _, _, _, _)
BinarySearch(rs, t, left, right, reads) ==
    IF ~(left < right) THEN [left |-> left, reads |-> reads, threw |-> FALSE]
    ELSE LET mid == (left + right) \div 2
         IN  IF mid < 0 \/ mid >= Len(rs)
             THEN [left |-> left, reads |-> reads \cup {mid}, threw |-> TRUE]
             ELSE IF SearchKey(rs[mid + 1]) < t.start
                  THEN BinarySearch(rs, t, mid + 1, right, reads \cup {mid})
                  ELSE BinarySearch(rs, t, left, mid, reads \cup {mid})

\* for (let i = left; i < this.ranges.length; i++) { ... } of overlapsCloudflare
RECURSIVE ScanOverlap(_, _, _, _)
ScanOverlap(rs, t, i, reads) ==
    IF ~(i < Len(rs)) THEN [value |-> FALSE, reads |-> reads, threw |-> FALSE]
    ELSE IF rs[i + 1].start > t.end
         THEN [value |-> FALSE, reads |-> reads \cup {i}, threw |-> FALSE]
         ELSE IF rangesOverlap(t, rs[i + 1])
              THEN [value |-> TRUE, reads |-> reads \cup {i}, threw |-> FALSE]
              ELSE ScanOverlap(rs, t, i + 1, reads \cup {i})

\* the same loop of containedInCloudflare
RECURSIVE ScanContained(_, _, _, _)
ScanContained(rs, t, i, reads) ==
    IF ~(i < Len(rs)) THEN [value |-> FALSE, reads |-> reads, threw |-> FALSE]
    ELSE IF rs[i + 1].start > t.end
         THEN [value |-> FALSE, reads |-> reads \cup {i}, threw |-> FALSE]
         ELSE IF rangeContainedIn(t, rs[i + 1])
              THEN [value |-> TRUE, reads |-> reads \cup {i}, threw |-> FALSE]
              ELSE ScanContained(rs, t, i + 1, reads \cup {i})

\* if (!target) return false
UnparsedAnswerMatches == [value |-> TRUE, reads |-> {}, threw |-> FALSE]
UnparsedAnswer == [value |-> FALSE, reads |-> {}, threw |-> FALSE]

overlapsCloudflare(rs, c) ==
    LET tr == cidrToRange(c)
    IN  IF tr = <<>> THEN UnparsedAnswer
        ELSE LET b == BinarySearch(rs, tr[1], 0, Len(rs) - 1, {})
             IN  IF b.threw THEN [value |-> FALSE, reads |-> b.reads, threw |-> TRUE]
                 ELSE ScanOverlap(rs, tr[1], b.left, b.reads)

containedInCloudflare(rs, c) ==
    LET tr == cidrToRange(c)
    IN  IF tr = <<>> THEN UnparsedAnswer
        ELSE IF IsCatchAll(tr[1]) THEN NoAnswer
        ELSE LET b == BinarySearch(rs, tr[1], 0, Len(rs) - 1, {})
             IN  IF b.threw THEN [value |-> FALSE, reads |-> b.reads, threw |-> TRUE]
                 ELSE ScanContained(rs, tr[1], b.left, b.reads)

\* new CloudflareRangeMatcher(cloudflareRanges)
MatchInit ==
    /\ cloudflareRanges \in SeqsUpTo(RefEntries, MaxRanges)
    /\ ranges = CloudflareRangeMatcher(cloudflareRanges)
    /\ target = <<>>
    /\ lastOp = "none"
    /\ answer = NoAnswer
    /\ PoolIdle /\ StreamIdle /\ XrayIdle /\ SpeedIdle /\ MainIdle /\ TunnelIdle
    /\ ProbeIdle /\ HttpProbeIdle /\ RangesIdle /\ ConfigIdle /\ RandomIpsIdle
    /\ LoadIdle

\* matcher.overlapsCloudflare(cidr).  A query leaves the matcher as it is,
\* so one query per behaviour covers them all.
OverlapsQuery ==
    /\ lastOp = "none"
    /\ \E c \in Candidates :
         /\ target' = <<c>>
         /\ answer' = overlapsCloudflare(ranges, c)
    /\ lastOp' = "overlaps"
    /\ UNCHANGED <<cloudflareRanges, ranges>>
    /\ UNCHANGED <<poolVars, streamVars, xrVars, spVars, mnVars, tnVars,
                   pbVars, hpVars, rgVars, cfVars, grVars, ldVars>>

\* matcher.containedInCloudflare(cidr)
ContainedQuery ==
    /\ lastOp = "none"
    /\ \E c \in Candidates :
         /\ target' = <<c>>
         /\ answer' = containedInCloudflare(ranges, c)
    /\ lastOp' = "contained"
    /\ UNCHANGED <<cloudflareRanges, ranges>>
    /\ UNCHANGED <<poolVars, streamVars, xrVars, spVars, mnVars, tnVars,
                   pbVars, hpVars, rgVars, cfVars, grVars, ldVars>>

MatchNext ==
    \/ OverlapsQuery
    \/ ContainedQuery

SpecMatcher == MatchInit /\ [][MatchNext]_vars

\* ---- claims about the matcher ------------------------------------------

Asked(op) == lastOp = op /\ target # <<>>
TargetIsV4 == target # <<>> /\ target[1].fam = "v4"

\* The numeric interval of the queried IPv4 candidate, from its address bits.
TargetLo ==
    LET c == target[1]
    IN  ipv4ToNum([k \in 1..AddrBits |-> IF k <= c.prefix THEN c.addr[k] ELSE 0])
TargetHi ==
    LET c == target[1]
    IN  ipv4ToNum([k \in 1..AddrBits |-> IF k <= c.prefix THEN c.addr[k] ELSE 1])

PairwiseDisjoint ==
    \A i \in 1..Len(ranges) : \A j \in 1..Len(ranges) :
        i < j => (ranges[i].end < ranges[j].start \/ ranges[j].end < ranges[i].start)

LinearOverlap == \E k \in 1..Len(ranges) :
    TargetLo <= ranges[k].end /\ ranges[k].start <= TargetHi
LinearContained == \E k \in 1..Len(ranges) :
    ranges[k].start <= TargetLo /\ TargetHi <= ranges[k].end

\* C5: on a non-empty index of pairwise disjoint intervals
\* overlapsCloudflare answers as a linear scan for an intersecting interval.
C5_OverlapsAgreesWithScan ==
    (Asked("overlaps") /\ TargetIsV4 /\ ranges # <<>> /\ PairwiseDisjoint)
        => (answer.value <=> LinearOverlap)

\* C5 witness: three disjoint intervals, and a candidate that overlaps the
\* last of them only.
C5_Witness ==
    /\ Asked("overlaps") /\ TargetIsV4 /\ PairwiseDisjoint
    /\ Len(ranges) = 3
    /\ answer.value
    /\ TargetLo > ranges[2].end

\* C6 as stated: on a non-empty index of pairwise disjoint intervals
\* containedInCloudflare answers as a linear scan for an enclosing
\* interval, for every candidate.
C6_ContainedAgreesWithScan ==
    (Asked("contained") /\ TargetIsV4 /\ ranges # <<>> /\ PairwiseDisjoint)
        => (answer.value <=> LinearContained)

TargetIsWholeSpace == TargetLo = 0 /\ TargetHi = Pow2(AddrBits) - 1

\* C6 amended: on a non-empty index of pairwise disjoint intervals
\* containedInCloudflare answers as a linear scan for an enclosing
\* interval for every candidate but the one covering the whole address
\* space, for which it answers false.
C6_ContainedAgreesExceptWholeSpace ==
    (Asked("contained") /\ TargetIsV4 /\ ranges # <<>> /\ PairwiseDisjoint)
        => (answer.value <=> (LinearContained /\ ~TargetIsWholeSpace))

\* C6 witness: a candidate that overlaps an indexed interval without lying
\* inside any, in an index of at least two disjoint intervals.
C6_Witness ==
    /\ Asked("contained") /\ TargetIsV4 /\ PairwiseDisjoint
    /\ Len(ranges) >= 2
    /\ ~answer.value
    /\ LinearOverlap
    /\ ~TargetIsWholeSpace

\* C7: for the candidate that covers the whole address space
\* containedInCloudflare is false whatever the index holds, and
\* overlapsCloudflare is true for every non-empty index.
C7_CatchAll ==
    (TargetIsV4 /\ target[1].prefix = 0) =>
        /\ Asked("contained") => ~answer.value
        /\ (Asked("overlaps") /\ ranges # <<>>) => answer.value

\* C7 witness: the whole-space candidate asked of an index that itself
\* holds the whole-space interval.
C7_Witness ==
    /\ Asked("contained") /\ TargetIsV4 /\ target[1].prefix = 0
    /\ \E k \in 1..Len(ranges) : ranges[k].start = 0 /\ ranges[k].end = ALL_ONES
    /\ ~answer.value

\* C8: with a reference list in which no entry is an IPv4 CIDR every query
\* is false, a candidate that is not an IPv4 CIDR matches no index, and no
\* query reads this.ranges outside 0 .. length - 1.
C8_EmptyAndUnparsable ==
    lastOp # "none" =>
        /\ (\A k \in 1..Len(cloudflareRanges) : cloudflareRanges[k].fam # "v4")
               => ~answer.value
        /\ ~TargetIsV4 => ~answer.value
        /\ ~answer.threw
        /\ \A i \in answer.reads : 0 <= i /\ i < Len(ranges)

\* C8 witness: an IPv6 candidate asked of an index whose first interval
\* starts at address 0.
C8_Witness ==
    /\ Asked("overlaps") /\ target[1].fam = "v6"
    /\ ranges # <<>> /\ ranges[1].start = 0
    /\ Len(cloudflareRanges) > Len(ranges)
    /\ ~answer.value

\* ========================================================================
\* STREAMING FILTER OF THE LARGE-FILE MODE
\* ========================================================================
\* A line of the input file, after trim(): blank, a # comment, or a CIDR.
BlankLine == [kind |-> "blank", cidr |-> BadCidr]
CommentLine == [kind |-> "comment", cidr |-> BadCidr]
CidrLines == [kind : {"cidr"}, cidr : Candidates]
Lines == {BlankLine, CommentLine} \cup CidrLines

\* The reference lists main builds the matcher from: the IPv4 lines of the
\* published list followed by its IPv6 lines, or nothing usable.
StreamRefLists ==
    {<<>>} \cup {<<c>> : c \in RefEntries} \cup {<<c, V6Cidr>> : c \in AlignedCidrs}

\* if (matcher.containedInCloudflare(trimmed)) cloudflareSubnets.push(trimmed)
KeepLineAlways(rs, line) == TRUE
KeepLine(rs, line) == containedInCloudflare(rs, line.cidr).value

StreamInit ==
    /\ cloudflareRanges \in StreamRefLists
    /\ ranges = CloudflareRangeMatcher(cloudflareRanges)
    /\ target = <<>>
    /\ lastOp = "none"
    /\ answer = NoAnswer
    /\ fileLines = <<>>
    /\ cloudflareSubnets = <<>>
    /\ processed = 0
    /\ streamState = "open"
    /\ PoolIdle /\ XrayIdle /\ SpeedIdle /\ MainIdle /\ TunnelIdle
    /\ ProbeIdle /\ HttpProbeIdle /\ RangesIdle /\ ConfigIdle /\ RandomIpsIdle
    /\ LoadIdle

\* rl.on("line", ...)
OnLine ==
    /\ streamState = "open"
    /\ Len(fileLines) < MaxLines
    /\ \E line \in Lines :
         /\ fileLines' = Append(fileLines, line)
         /\ IF line.kind \in {"blank", "comment"}
            THEN UNCHANGED cloudflareSubnets
            ELSE cloudflareSubnets' =
                   IF KeepLine(ranges, line)
                   THEN Append(cloudflareSubnets, line.cidr)
                   ELSE cloudflareSubnets
    /\ processed' = processed + 1
    /\ UNCHANGED <<streamState, matchVars>>
    /\ UNCHANGED <<poolVars, xrVars, spVars, mnVars, tnVars, pbVars, hpVars,
                   rgVars, cfVars, grVars, ldVars>>

\* rl.on("close", ...): resolve(cloudflareSubnets)
OnClose ==
    /\ streamState = "open"
    /\ streamState' = "closed"
    /\ UNCHANGED <<fileLines, cloudflareSubnets, processed, matchVars>>
    /\ UNCHANGED <<poolVars, xrVars, spVars, mnVars, tnVars, pbVars, hpVars,
                   rgVars, cfVars, grVars, ldVars>>

StreamNext ==
    \/ OnLine
    \/ OnClose

SpecStream == StreamInit /\ [][StreamNext]_vars

\* ---- claims about the streaming filter ---------------------------------

IPv6LinesRead == {k \in 1..Len(fileLines) :
                    fileLines[k].kind = "cidr" /\ fileLines[k].cidr.fam = "v6"}
Kept(c) == \E k \in 1..Len(cloudflareSubnets) : cloudflareSubnets[k] = c

\* C9: an IPv6 line of the input file passes the filter unfiltered, it is
\* in the list of subnets to scan.
C9_IPv6PassedThrough ==
    \A k \in IPv6LinesRead : Kept(fileLines[k].cidr)

\* ========================================================================
\* PROXY VALIDATION (testXrayForIps, runXrayForIp)
\* ========================================================================
\* What the config template holds, as getProxyInbound sees it.
XrayTemplates == {"socks", "http", "noInbounds", "noProxyInbound",
                  "socksAuth", "socksAccounts", "httpAccounts", "noPort"}

\* getProxyInbound: the inbound protocol, or "throw" for a template it refuses
getProxyInbound(t) == IF t \in {"socks", "http"} THEN t ELSE "throw"

\* What the network does during one validation attempt.
TunnelFailures == {"socksRefused", "socksAuthFailed", "connectNon200",
                   "tunnelTimeout", "tunnelSocketError"}
\* "tunnelEnd": the proxy closes the connection during the handshake;
\* "requestEnd": it closes it after the request was written;
\* "tlsSilent": the far end stays silent while TLS is layered on the tunnel;
\* "requestTimeout": it stays silent after the request has gone out.
XrayScenarios == {"response", "responseInstant", "requestError",
                  "requestTimeout", "tunnelEnd", "requestEnd", "tlsSilent"}
                     \cup TunnelFailures

\* The values of the option testUrl: the default, and the same over http
XrayTestUrls == {[protocol |-> "https:"], [protocol |-> "http:"]}

\* What spawn(xrayBin, ...) does: it starts the process; it returns and the
\* process emits 'error' later (no such file); or it throws at once (the
\* path of the binary runs through a regular file).
SpawnOutcomes == {"started", "failed", "threw"}

\* Which scenarios a request can meet: the tunnel failures depend on the
\* inbound protocol, a silent TLS handshake needs an https test URL.
ScenarioFits(proto, url, sc) ==
    /\ sc \in {"socksRefused", "socksAuthFailed"} => proto = "socks"
    /\ sc = "connectNon200" => proto = "http"
    /\ sc = "tlsSilent" => url.protocol = "https:"

\* httpProxyTunnel / socksProxyTunnel: the promise of the tunnel.  Nothing
\* listens for 'end' or 'close': when the proxy closes the connection the
\* idle timer goes with the socket and the promise never settles.
openTunnel(sc) ==
    IF sc \in TunnelFailures THEN "reject"
    ELSE IF sc = "tunnelEnd" THEN "pending"
    ELSE "resolve"

\* requestThroughProxy after the tunnel is open: resolved with the elapsed
\* ms or with 0, or left pending.  Over https a far end that stays silent
\* during the TLS handshake is met by the timer the tunnel function left
\* on the tunnel socket, whose reject has no effect any more; a proxy that
\* closes the connection after the request fires no listener at all.
requestThroughProxy(url, sc) ==
    CASE sc = "response" -> [state |-> "resolved", elapsed |-> 35]
      [] sc = "responseInstant" -> [state |-> "resolved", elapsed |-> 0]
      [] sc = "requestEnd" -> [state |-> "pending", elapsed |-> 0]
      [] sc = "tlsSilent" /\ url.protocol = "https:" ->
            [state |-> "pending", elapsed |-> 0]
      [] OTHER -> [state |-> "resolved", elapsed |-> 0]

\* The finally block of runXrayForIp, entered when the try block is left by
\* a return or by a throw: proc.kill("SIGTERM"); fs.unlinkSync(tmpPath).
\* It is not entered while an await of the try block stays pending.
XrayFinallyOnReturnOnly(kind) ==
    [killed |-> kind = "return", unlinked |-> kind = "return"]
XrayFinally(kind) ==
    [killed |-> kind # "pending", unlinked |-> kind # "pending"]

\* The process behind the inbound port when attempt i connects to it.  The
\* port is the one of the template for every attempt; a process of an
\* earlier attempt that has not exited still holds it, and the new process
\* cannot bind it.  Nobody holds it (0) when no earlier process is left and
\* the spawn of this attempt failed.
PortHolder(alive, i, started) ==
    IF alive # 0 THEN alive ELSE IF started THEN i ELSE 0

\* waitForPort: the values its promise can resolve with.  A port that a
\* process holds accepts the first connection of tryOnce; the process of
\* this attempt may bind the port in time or not; a port that nobody holds
\* refuses until the time is up.
waitForPort(old, started) ==
    IF old # 0 THEN {TRUE} ELSE IF started THEN {TRUE, FALSE} ELSE {FALSE}

\* runXrayForIp up to its first await: the template is read and checked,
\* the temporary file written, the process spawned and waitForPort called.
\* getProxyInbound throws before the file is written; spawn is called
\* after it and before the try block, so when it throws the function
\* rejects with the file left on disk.  A failed spawn is reported by an
\* 'error' event after the synchronous test of spawnError, so the attempt
\* goes on to waitForPort all the same.
runXrayForIp(template, spawn) ==
    IF getProxyInbound(template) = "throw"
    THEN [kind |-> "throw", error |-> "config", wrote |-> FALSE,
          spawned |-> FALSE]
    ELSE IF spawn = "threw"
    THEN [kind |-> "throw", error |-> "spawn", wrote |-> TRUE,
          spawned |-> FALSE]
    ELSE [kind |-> "await", error |-> "none", wrote |-> TRUE,
          spawned |-> spawn = "started"]

\* How the try block of runXrayForIp is left, if it is, once the port is
\* ready: by the throw of a rejected tunnel, by the return of the latency,
\* or not at all.
XrayTry(url, sc) ==
    IF openTunnel(sc) = "reject"
    THEN [kind |-> "throw", latency |-> 0, error |-> sc]
    ELSE IF openTunnel(sc) = "pending"
              \/ requestThroughProxy(url, sc).state = "pending"
    THEN [kind |-> "pending", latency |-> 0, error |-> "none"]
    ELSE [kind |-> "return", latency |-> requestThroughProxy(url, sc).elapsed,
          error |-> "none"]

XrayInit ==
    /\ xrayConfigPath \in {"", "config.json"}
    /\ xrayTestUrl \in XrayTestUrls
    /\ xrayTemplate \in XrayTemplates
    /\ xrayMaxCount \in 0..MaxXrayIps
    /\ \E n \in 0..MaxXrayIps : xrIpSet = [k \in 1..n |-> k]
    /\ xrI = 0
    /\ xrOut = <<>>
    /\ xrState = "init"
    /\ xrError = "none"
    /\ xrReturn = <<>>
    /\ xrSpawned = 0 /\ xrTmpFiles = 0 /\ xrProcs = 0
    /\ xrAlive = 0 /\ xrServedBy = NoAttempt /\ xrTurn = NoTurn
    /\ PoolIdle /\ MatchIdle /\ StreamIdle /\ SpeedIdle /\ MainIdle /\ TunnelIdle
    /\ ProbeIdle /\ HttpProbeIdle /\ RangesIdle /\ ConfigIdle /\ RandomIpsIdle
    /\ LoadIdle

XrayMaxCount ==
    IF xrayMaxCount > 0 THEN Min(xrayMaxCount, Len(xrIpSet)) ELSE Len(xrIpSet)

\* testXrayForIps up to the loop
XrayStart ==
    /\ xrState = "init"
    /\ IF xrayConfigPath = ""
       THEN xrState' = "resolved" /\ xrReturn' = xrIpSet
       ELSE IF Len(xrIpSet) = 0
       THEN xrState' = "resolved" /\ xrReturn' = <<>>
       ELSE xrState' = "running" /\ xrReturn' = xrReturn
    /\ UNCHANGED <<xrayConfigPath, xrayTestUrl, xrayTemplate, xrayMaxCount, xrIpSet, xrI,
                   xrOut, xrError, xrSpawned, xrTmpFiles, xrProcs, xrAlive,
                   xrServedBy, xrTurn>>
    /\ UNCHANGED <<poolVars, matchVars, streamVars, spVars, mnVars, tnVars,
                   pbVars, hpVars, rgVars, cfVars, grVars, ldVars>>

\* The process of an earlier attempt that holds the inbound port.  With
\* `observed` the model follows it in xrAlive; without, a process of an
\* earlier attempt may or may not be left.
EarlierHolders(observed) ==
    IF observed THEN {xrAlive}
    ELSE IF xrSpawned > (IF xrTurn.spawned THEN 1 ELSE 0) THEN {0, xrI}
    ELSE {0}

\* The finally block has run for the turn: the file and the process of the
\* turn are counted out as far as XrayFinally removed and signalled them.
\* The process that holds the port may have exited meanwhile, the one of
\* this turn may have bound it, or may exit at once on its SIGTERM.
XrayLeaveTry(observed, kind) ==
    /\ xrTmpFiles' = xrTmpFiles - (IF XrayFinally(kind).unlinked THEN 1 ELSE 0)
    /\ xrProcs' = xrProcs - (IF xrTurn.spawned /\ XrayFinally(kind).killed
                             THEN 1 ELSE 0)
    /\ IF observed
       THEN xrAlive' \in {0, xrAlive}
                           \cup (IF xrTurn.spawned THEN {xrI + 1} ELSE {})
       ELSE UNCHANGED xrAlive

\* A turn of the loop begins: runXrayForIp(ip) is called and runs up to
\* `await waitForPort(...)`, or throws before.
XraySpawn(observed) ==
    /\ xrState = "running" /\ xrTurn.at = "loop"
    /\ xrI < XrayMaxCount
    /\ \E spawn \in SpawnOutcomes :
         LET r == runXrayForIp(xrayTemplate, spawn)
         IN  /\ xrSpawned' = xrSpawned + (IF r.spawned THEN 1 ELSE 0)
             /\ xrTmpFiles' = xrTmpFiles + (IF r.wrote THEN 1 ELSE 0)
             /\ xrProcs' = xrProcs + (IF r.spawned THEN 1 ELSE 0)
             /\ IF r.kind = "throw"
                THEN /\ xrState' = "rejected"
                     /\ xrError' = r.error
                     /\ UNCHANGED xrTurn
                ELSE /\ xrTurn' = [at |-> "waitForPort", spawned |-> r.spawned]
                     /\ UNCHANGED <<xrState, xrError>>
    /\ IF observed
       THEN xrServedBy' = [attempt |-> xrI + 1, proc |-> 0]
       ELSE UNCHANGED xrServedBy
    /\ UNCHANGED <<xrayConfigPath, xrayTestUrl, xrayTemplate, xrayMaxCount,
                   xrIpSet, xrI, xrOut, xrReturn, xrAlive>>
    /\ UNCHANGED <<poolVars, matchVars, streamVars, spVars, mnVars, tnVars,
                   pbVars, hpVars, rgVars, cfVars, grVars, ldVars>>

\* waitForPort has resolved.  With false the try block returns 0, the
\* finally block runs and the loop goes on without the candidate; with
\* true requestThroughProxy is called and awaited.
XrayPortWait(observed) ==
    /\ xrState = "running" /\ xrTurn.at = "waitForPort"
    /\ \E old \in EarlierHolders(observed) :
       \E ready \in waitForPort(old, xrTurn.spawned) :
         IF ready
         THEN /\ xrTurn' = [xrTurn EXCEPT !.at = "request"]
              /\ IF observed
                 THEN /\ xrAlive' = PortHolder(old, xrI + 1, xrTurn.spawned)
                      /\ xrServedBy' = [attempt |-> xrI + 1, proc |-> xrAlive']
                 ELSE UNCHANGED <<xrAlive, xrServedBy>>
              /\ UNCHANGED <<xrI, xrTmpFiles, xrProcs>>
         ELSE /\ XrayLeaveTry(observed, "return")
              /\ xrI' = xrI + 1
              /\ xrTurn' = NoTurn
              /\ UNCHANGED xrServedBy
    /\ UNCHANGED <<xrayConfigPath, xrayTestUrl, xrayTemplate, xrayMaxCount,
                   xrIpSet, xrOut, xrState, xrError, xrReturn, xrSpawned>>
    /\ UNCHANGED <<poolVars, matchVars, streamVars, spVars, mnVars, tnVars,
                   pbVars, hpVars, rgVars, cfVars, grVars, ldVars>>

\* requestThroughProxy has settled, or no longer can.  When it has, the
\* finally block runs; a rejection goes on through `await runXrayForIp(ip)`
\* and rejects testXrayForIps, a latency ends the turn: if (latency > 0)
\* { ipSet[i].xrayLatencyMs = latency; out.push(ipSet[i]); }
XrayRequest(observed) ==
    /\ xrState = "running" /\ xrTurn.at = "request"
    /\ \E sc \in XrayScenarios :
         /\ ScenarioFits(getProxyInbound(xrayTemplate), xrayTestUrl, sc)
         /\ LET t == XrayTry(xrayTestUrl, sc)
            IN  CASE t.kind = "pending" ->
                       \* `await runXrayForIp(ip)` never resumes
                       /\ xrState' = "pending"
                       /\ UNCHANGED <<xrI, xrOut, xrError, xrTurn, xrTmpFiles,
                                      xrProcs, xrAlive>>
                  [] t.kind = "throw" ->
                       /\ XrayLeaveTry(observed, t.kind)
                       /\ xrState' = "rejected"
                       /\ xrError' = t.error
                       /\ xrTurn' = NoTurn
                       /\ UNCHANGED <<xrI, xrOut>>
                  [] OTHER ->
                       /\ XrayLeaveTry(observed, t.kind)
                       /\ xrOut' = IF t.latency > 0
                                   THEN Append(xrOut, [ip |-> xrIpSet[xrI + 1],
                                                       xrayLatencyMs |-> t.latency])
                                   ELSE xrOut
                       /\ xrI' = xrI + 1
                       /\ xrTurn' = NoTurn
                       /\ UNCHANGED <<xrState, xrError>>
    /\ UNCHANGED <<xrayConfigPath, xrayTestUrl, xrayTemplate, xrayMaxCount,
                   xrIpSet, xrReturn, xrSpawned, xrServedBy>>
    /\ UNCHANGED <<poolVars, matchVars, streamVars, spVars, mnVars, tnVars,
                   pbVars, hpVars, rgVars, cfVars, grVars, ldVars>>

XrayTestSpawn == XraySpawn(TRUE)
XrayTestPort == XrayPortWait(TRUE)
XrayTestRequest == XrayRequest(TRUE)

\* The same turn as main runs it; the run of main does not follow the
\* processes of the operating system.
XraySpawnInMain == XraySpawn(FALSE)
XrayPortInMain == XrayPortWait(FALSE)
XrayRequestInMain == XrayRequest(FALSE)

\* A proxy process that was sent SIGTERM exits, some time after the signal:
\* proc.kill() only sends the signal and nothing waits for the 'exit' event.
XrayProcExit ==
    /\ xrState \in {"running", "resolved", "rejected", "pending"}
    /\ xrAlive # 0
    /\ xrAlive' = 0
    /\ UNCHANGED <<xrayConfigPath, xrayTestUrl, xrayTemplate, xrayMaxCount, xrIpSet, xrI,
                   xrOut, xrState, xrError, xrReturn, xrSpawned, xrTmpFiles,
                   xrProcs, xrServedBy, xrTurn>>
    /\ UNCHANGED <<poolVars, matchVars, streamVars, spVars, mnVars, tnVars,
                   pbVars, hpVars, rgVars, cfVars, grVars, ldVars>>

\* The loop is over: return out
XrayReturn ==
    /\ xrState = "running" /\ xrTurn.at = "loop"
    /\ xrI >= XrayMaxCount
    /\ xrState' = "resolved"
    /\ xrReturn' = xrOut
    /\ UNCHANGED <<xrayConfigPath, xrayTestUrl, xrayTemplate, xrayMaxCount, xrIpSet, xrI,
                   xrOut, xrError, xrSpawned, xrTmpFiles, xrProcs, xrAlive,
                   xrServedBy, xrTurn>>
    /\ UNCHANGED <<poolVars, matchVars, streamVars, spVars, mnVars, tnVars,
                   pbVars, hpVars, rgVars, cfVars, grVars, ldVars>>

XrayNext ==
    \/ XrayStart
    \/ XrayTestSpawn
    \/ XrayTestPort
    \/ XrayTestRequest
    \/ XrayProcExit
    \/ XrayReturn

SpecXray == XrayInit /\ [][XrayNext]_vars

\* ---- claims about the proxy validation ---------------------------------

\* C4: a failure to open the tunnel for one candidate (SOCKS5 refusal,
\* non-200 CONNECT reply, handshake timeout, socket error) is never raised
\* to the caller of testXrayForIps: the promise is not rejected with it.
C4_TunnelFailureNotRaised ==
    ~(xrState = "rejected" /\ xrError \in
        {"socksRefused", "socksAuthFailed", "connectNon200",
         "tunnelTimeout", "tunnelSocketError"})

\* C32: each proxy-validation measurement is made through the proxy
\* process spawned for that candidate: the connection of attempt i to the
\* inbound port is never accepted by the process of an earlier attempt,
\* and when an attempt starts no earlier process is left holding the port.
C32_OwnProxyServes ==
    /\ xrServedBy.proc \in {0, xrServedBy.attempt}
    /\ xrAlive \in {0, xrServedBy.attempt}

\* C18: every validation attempt that wrote a temporary config file and
\* spawned a proxy process has sent SIGTERM to that process and removed that
\* file by the time runXrayForIp returns or throws: whenever no call of
\* runXrayForIp is under way (between attempts, and once testXrayForIps has
\* settled) no temporary file is left on disk and no spawned process is left
\* unsignalled, whatever the outcomes were; while a call is under way the
\* only file and the only unsignalled process are its own.  The one case
\* the claim leaves out is a call in which spawn itself threw, so that no
\* process exists: its file stays.  A call that never returns or throws
\* stays under way.
C18_ProxyCleanedUp ==
    /\ (xrTurn.at = "loop" /\ ~(xrState = "rejected" /\ xrError = "spawn"))
         => (xrTmpFiles = 0 /\ xrProcs = 0)
    /\ xrTurn.at = "loop" => xrProcs = 0
    /\ xrTmpFiles <= 1 /\ xrProcs <= 1
    /\ xrState = "pending" => xrTurn.at # "loop"

\* an attempt that wrote the file and spawned the process ended in a throw
\* (the tunnel was refused), after another one that returned
C18_Witness ==
    /\ xrState = "rejected" /\ xrError \in TunnelFailures
    /\ xrSpawned >= 2 /\ xrI >= 1
    /\ xrTurn.at = "loop"

\* ========================================================================
\* DOWNLOAD SPEED STAGE (download.ts)
\* ========================================================================

SPEED_PARALLEL == 5
MinTestNum == 15            \* Math.max(testCount * 2, 15)
BytesPerMB == 1048576       \* minSpeed * 1024 * 1024
SlowSpeed == 524288         \* a measured 0.5 MB/s
FastSpeed == 2097152        \* a measured 2 MB/s

\* testCount as main hands it over: (args.dn) || 10 is never 0.
TestCounts == {1, 2}
\* minSpeed in MB/s: (args.sl) || 0
MinSpeeds == {0, 1}

\* What the two requests to one address yield: the 1 MB download and the
\* 100 KB download (bytes per second, 0 on any error or timeout).
Dead == [big |-> 0, small |-> 0]
Slow == [big |-> 0, small |-> SlowSpeed]
Fast == [big |-> FastSpeed, small |-> FastSpeed]

\* Network profiles of n addresses: all dead but the ones at the chosen
\* positions (position 0 chooses none).
Profiles(n) ==
    {[k \in 1..n |-> IF \E j \in 1..MaxFast : fastAt[j] = k THEN Fast
                     ELSE IF \E j \in 1..MaxSlow : slowAt[j] = k THEN Slow
                     ELSE Dead] :
        fastAt \in [1..MaxFast -> 0..n], slowAt \in [1..MaxSlow -> 0..n]}

\* downloadSpeed(ip): the 1 MB attempt, then the 100 KB one if it gave 0.
downloadSpeed(p) == IF p.big = 0 THEN p.small ELSE p.big

\* speeds[j] > 0 && speeds[j] >= minSpeed * 1024 * 1024
Qualifies(speed) == speed > 0 /\ speed >= minSpeed * BytesPerMB

\* testNum of testDownloadSpeed
TestNum ==
    IF minSpeed > 0 THEN Len(ipSet)
    ELSE Min(Max(testCount * 2, MinTestNum), Len(ipSet))

\* Array.prototype.slice(from, to) with 0 <= from
Slice(list, from, to) == SubSeq(list, from + 1, Min(to, Len(list)))

\* [...withSpeed].sort((a, b) => b.downloadSpeed - a.downloadSpeed):
\* stable, fastest first.
RECURSIVE InsertBySpeed(_, _)
InsertBySpeed(sorted, d) ==
    IF sorted = <<>> THEN <<d>>
    ELSE IF sorted[Len(sorted)].downloadSpeed >= d.downloadSpeed
         THEN Append(sorted, d)
         ELSE Append(InsertBySpeed(SubSeq(sorted, 1, Len(sorted) - 1), d),
                     sorted[Len(sorted)])

RECURSIVE SortBySpeedDesc(_)
SortBySpeedDesc(list) ==
    IF list = <<>> THEN <<>>
    ELSE InsertBySpeed(SortBySpeedDesc(SubSeq(list, 1, Len(list) - 1)),
                       list[Len(list)])

Filter(list, Keep(_)) ==
    LET RECURSIVE F(_)
        F(k) == IF k = 0 THEN <<>>
                ELSE IF Keep(list[k]) THEN Append(F(k - 1), list[k])
                ELSE F(k - 1)
    IN  F(Len(list))

HasSpeed(d) == d.downloadSpeed > 0

\* ipSet.slice(0, testNum), returned when nothing was measured above 0
FallbackListNone(list, n) == <<>>
FallbackList(list, n) == Slice(list, 0, n)

\* if (results.length >= testCount) break;
LoopBreaksNever(n) == FALSE
LoopBreaks(n) == n >= testCount

\* The tail of testDownloadSpeed, after the loop.
SpeedResult(res, list) ==
    LET withSpeed == Filter(res, HasSpeed)
        sorted == SortBySpeedDesc(withSpeed)
    IN  IF Len(sorted) > 0 THEN sorted ELSE FallbackList(list, TestNum)

SpeedInit ==
    /\ disable \in BOOLEAN
    /\ testCount \in TestCounts
    /\ minSpeed \in MinSpeeds
    /\ \E n \in 0..MaxIps :
         /\ ipSet = [k \in 1..n |-> [ip |-> k, downloadSpeed |-> 0]]
         /\ spEnv \in Profiles(n)
    /\ spI = 0
    /\ spResults = <<>>
    /\ spState = "init"
    /\ spReturn = <<>>
    /\ PoolIdle /\ MatchIdle /\ StreamIdle /\ XrayIdle /\ MainIdle /\ TunnelIdle
    /\ ProbeIdle /\ HttpProbeIdle /\ RangesIdle /\ ConfigIdle /\ RandomIpsIdle
    /\ LoadIdle

\* testDownloadSpeed up to the first `await Promise.all(...)`
SpeedStart ==
    /\ spState = "init"
    /\ IF disable \/ Len(ipSet) = 0
       THEN /\ spReturn' = ipSet
            /\ spState' = "returned"
       ELSE /\ spState' = "testing"
            /\ UNCHANGED spReturn
    /\ UNCHANGED <<disable, testCount, minSpeed, spEnv, ipSet, spI, spResults>>
    /\ UNCHANGED <<poolVars, matchVars, streamVars, xrVars, mnVars, tnVars,
                   pbVars, hpVars, rgVars, cfVars, grVars, ldVars>>

\* The downloads of one batch have settled: record the speeds, keep the
\* qualifying entries, then either go on with the next batch or leave the
\* loop and return.
SpeedBatch ==
    /\ spState = "testing"
    /\ LET hi == Min(spI + SPEED_PARALLEL, TestNum)
           batch == (spI + 1)..hi
           measured == [k \in 1..Len(ipSet) |->
                          IF k \in batch
                          THEN [ipSet[k] EXCEPT
                                  !.downloadSpeed = downloadSpeed(spEnv[k])]
                          ELSE ipSet[k]]
           RECURSIVE Push(_, _)
           Push(res, k) ==
               IF k > hi THEN res
               ELSE Push(IF Qualifies(measured[k].downloadSpeed)
                         THEN Append(res, measured[k]) ELSE res, k + 1)
           pushed == Push(spResults, spI + 1)
       IN  /\ ipSet' = measured
           /\ spResults' = pushed
           /\ spI' = spI + SPEED_PARALLEL
           /\ IF LoopBreaks(Len(pushed)) \/ spI + SPEED_PARALLEL >= TestNum
              THEN /\ spReturn' = SpeedResult(pushed, measured)
                   /\ spState' = "returned"
              ELSE UNCHANGED <<spReturn, spState>>
    /\ UNCHANGED <<disable, testCount, minSpeed, spEnv>>
    /\ UNCHANGED <<poolVars, matchVars, streamVars, xrVars, mnVars, tnVars,
                   pbVars, hpVars, rgVars, cfVars, grVars, ldVars>>

SpeedNext ==
    \/ SpeedStart
    \/ SpeedBatch

SpecSpeed == SpeedInit /\ [][SpeedNext]_vars

\* ---- claims about the download speed stage -----------------------------

\* The addresses the stage tests, and whether none of them qualifies.
Tested == 1..TestNum
NoneQualifies == \A k \in Tested : ~Qualifies(downloadSpeed(spEnv[k]))

\* C10: with the speed stage enabled and a non-empty list, when no tested
\* address yields a positive, qualifying throughput, testDownloadSpeed
\* returns the first testNum entries of the list it was given, in the same
\* order, and not an empty list.
C10_FallbackToGivenList ==
    (spState = "returned" /\ ~disable /\ Len(ipSet) > 0 /\ NoneQualifies) =>
        /\ spReturn # <<>>
        /\ Len(spReturn) = TestNum
        /\ \A k \in 1..TestNum : spReturn[k].ip = k

\* C10 witness: a stage that went through more than one batch, measured a
\* positive speed below the limit on one address, found none qualifying
\* and handed the tested entries back.
C10_Witness ==
    /\ spState = "returned" /\ ~disable
    /\ NoneQualifies
    /\ spI >= TestNum
    /\ Len(spReturn) > SPEED_PARALLEL
    /\ \E k \in 1..Len(spReturn) : spReturn[k].downloadSpeed > 0

\* The tested addresses up to position b that qualify.
QualifyingUpTo(b) ==
    {k \in 1..Min(b, TestNum) : Qualifies(downloadSpeed(spEnv[k]))}

\* C31: testDownloadSpeed submits the candidates in rank order in batches
\* of SPEED_PARALLEL, starts no further batch once testCount qualifying
\* results are collected, and cancels no candidate of a batch it started:
\* every candidate of a started batch is measured and, if it qualifies,
\* collected; fewer than testCount + SPEED_PARALLEL results are collected.
C31_BatchesStopNotCancel ==
    spState \in {"testing", "returned"} /\ ~disable /\ Len(ipSet) > 0 =>
        /\ spI % SPEED_PARALLEL = 0
        /\ \A b \in 1..(spI - 1) :
             b % SPEED_PARALLEL = 0 /\ b < TestNum
                 => Cardinality(QualifyingUpTo(b)) < testCount
        /\ \A k \in 1..Len(ipSet) :
             ipSet[k].downloadSpeed =
                 IF k <= Min(spI, TestNum) THEN downloadSpeed(spEnv[k]) ELSE 0
        /\ Len(spResults) = Cardinality(QualifyingUpTo(spI))
        /\ \A j \in 1..Len(spResults) :
             /\ spResults[j].ip \in QualifyingUpTo(spI)
             /\ j < Len(spResults) => spResults[j].ip < spResults[j + 1].ip
        /\ Len(spResults) < testCount + SPEED_PARALLEL

\* The stage stopped after its first batch with more results than asked
\* for, leaving later candidates untested.
C31_Witness ==
    /\ spState = "returned" /\ ~disable
    /\ spI = SPEED_PARALLEL /\ TestNum > SPEED_PARALLEL
    /\ Len(spResults) > testCount

\* C11: with proxy validation enabled and a non-empty list from the
\* previous stage, when no candidate passes the validation testXrayForIps
\* hands back the list it was given, so the final result is not empty.
C11_XrayFallsBack ==
    (xrState = "resolved" /\ xrayConfigPath # "" /\ xrIpSet # <<>>
        /\ xrOut = <<>>)
      => (xrReturn = xrIpSet /\ xrReturn # <<>>)

\* ---- claims about the end of a scanning run --------------------------------

\* C12: a scanning run that probed its subnets and accepted none of them
\* still ends with the success exit status.
C12_CleanExitOnNoResult ==
    (poolKind = "scan" /\ subnets # <<>> /\ exitStatus # "running"
        /\ cleanResults(results) = {})
      => exitStatus = "0"

\* ========================================================================
\* MAIN (index.ts): latency pass, speed stage, proxy validation
\* ========================================================================

\* utils.ts
MAX_DELAY_MS == 9999
MIN_DELAY_MS == 0

\* What the pings of one address came to: none came back, all came back
\* quickly, one came back slowly, one came back very quickly.
PingOutcomes ==
    {[received |-> 0, delayMs |-> 0],
     [received |-> PingTimes, delayMs |-> 50],
     [received |-> 1, delayMs |-> 100],
     [received |-> 1, delayMs |-> 20]}

\* The orders in which the runOne calls of n addresses can settle: the
\* workers of runBatch run concurrently.
CompletionOrders(n) ==
    {o \in [1..n -> 1..n] : \A i, j \in 1..n : i # j => o[i] # o[j]}

\* runPing: the CloudflareIPData of the addresses that answered, pushed in
\* the order in which their runOne settled (null results are not pushed).
RECURSIVE runPing(_, _, _)
runPing(ips, env, order) ==
    IF order = <<>> THEN <<>>
    ELSE LET n == Len(order)
             i == order[n]
             rest == runPing(ips, env, SubSeq(order, 1, n - 1))
         IN  IF env[i].received = 0 THEN rest
             ELSE Append(rest, [ip |-> ips[i], sent |-> PingTimes,
                                received |-> env[i].received,
                                delayMs |-> env[i].delayMs,
                                downloadSpeed |-> 0])

\* The comparator of sortByDelayAndLoss is negative: a sorts before b.
\* getLossRate(d) = (d.sent - d.received) / d.sent, compared as fractions.
DelayBefore(a, b) == a.delayMs < b.delayMs
LossDelayBefore(a, b) ==
    LET la == (a.sent - a.received) * b.sent
        lb == (b.sent - b.received) * a.sent
    IN  IF la # lb THEN la < lb ELSE a.delayMs < b.delayMs

RECURSIVE InsertByLossDelay(_, _)
InsertByLossDelay(sorted, d) ==
    IF sorted = <<>> THEN <<d>>
    ELSE IF LossDelayBefore(d, sorted[Len(sorted)])
         THEN Append(InsertByLossDelay(SubSeq(sorted, 1, Len(sorted) - 1), d),
                     sorted[Len(sorted)])
         ELSE Append(sorted, d)

\* sortByDelayAndLoss: a stable sort
RECURSIVE sortByDelayAndLoss(_)
sortByDelayAndLoss(data) ==
    IF data = <<>> THEN <<>>
    ELSE InsertByLossDelay(sortByDelayAndLoss(SubSeq(data, 1, Len(data) - 1)),
                           data[Len(data)])

\* -tl and -tll as given on the command line, 0 when absent.
DelayArgs == {[tl |-> 0, tll |-> 0], [tl |-> 60, tll |-> 40],
              [tl |-> 20000, tll |-> 40], [tl |-> 60, tll |-> 0]}

\* setUtilsOptions({ inputMaxDelayMs: args.tl || 9999,
\*                   inputMinDelayMs: args.tll || 0, ... })
setUtilsOptions(tl, tll) ==
    [inputMaxDelayMs |-> IF tl = 0 THEN MAX_DELAY_MS ELSE tl,
     inputMinDelayMs |-> IF tll = 0 THEN MIN_DELAY_MS ELSE tll]

\* filterDelay with the limits given on the command line
filterDelay(data, maxDelayMs, minDelayMs) ==
    IF maxDelayMs > MAX_DELAY_MS \/ minDelayMs < MIN_DELAY_MS THEN data
    ELSE IF maxDelayMs = MAX_DELAY_MS /\ minDelayMs = MIN_DELAY_MS THEN data
    ELSE LET InLimits(v) == v.delayMs >= minDelayMs /\ v.delayMs <= maxDelayMs
         IN  Filter(data, InLimits)

\* filterLossRate with the limit given on the command line, a fraction
\* num / den (MAX_LOSS_RATE is 1.0)
filterLossRate(data, num, den) ==
    IF num >= den THEN data
    ELSE LET InLimit(v) == (v.sent - v.received) * den <= num * v.sent
         IN  Filter(data, InLimit)

\* sortBySpeed
sortBySpeed(data) == SortBySpeedDesc(data)

\* The addresses of a list of CloudflareIPData
IpsOf(data) == [k \in 1..Len(data) |-> data[k].ip]

\* The templates main is run with: one that getProxyInbound accepts and one
\* that it refuses; without -xray no template is read.
MainTemplates == {"socks", "noInbounds"}

MainInit ==
    /\ mnState = "start"
    /\ \E n \in 0..MaxMainIps : mnIps = [k \in 1..n |-> k]
    /\ mnPinged = 0
    /\ mnPingData = <<>>
    /\ mnFinal = <<>>
    /\ mnExit = "running"
    /\ mnError = "none"
    /\ mnEnv = <<>>
    /\ mnSorted = <<>>
    \* setUtilsOptions
    /\ \E a \in DelayArgs :
         /\ inputMaxDelayMs = setUtilsOptions(a.tl, a.tll).inputMaxDelayMs
         /\ inputMinDelayMs = setUtilsOptions(a.tl, a.tll).inputMinDelayMs
    \* setDownloadOptions, setXrayOptions
    /\ disable \in BOOLEAN
    /\ testCount = 10
    /\ minSpeed = 0
    /\ spEnv = <<>> /\ ipSet = <<>> /\ spI = 0 /\ spResults = <<>>
    /\ spState = "idle" /\ spReturn = <<>>
    /\ xrayConfigPath \in {"", "config.json"}
    /\ xrayTestUrl = [protocol |-> "https:"]      \* the default of -xrayurl
    /\ xrayTemplate \in (IF xrayConfigPath = "" THEN {"none"} ELSE MainTemplates)
    /\ xrayMaxCount = 2          \* -xrayn 2
    /\ xrIpSet = <<>> /\ xrI = 0 /\ xrOut = <<>>
    /\ xrState = "idle" /\ xrError = "none" /\ xrReturn = <<>>
    /\ xrSpawned = 0 /\ xrTmpFiles = 0 /\ xrProcs = 0
    /\ xrAlive = 0 /\ xrServedBy = NoAttempt /\ xrTurn = NoTurn
    /\ PoolIdle /\ MatchIdle /\ StreamIdle /\ TunnelIdle
    /\ ProbeIdle /\ HttpProbeIdle /\ RangesIdle /\ ConfigIdle /\ RandomIpsIdle
    /\ LoadIdle

\* main up to `await runPing(ips, progress)`
MainLoad ==
    /\ mnState = "start"
    /\ IF mnIps = <<>>
       THEN mnState' = "exited" /\ mnExit' = "1"      \* "No IPs."
       ELSE mnState' = "ping" /\ mnExit' = mnExit
    /\ UNCHANGED <<mnIps, mnPinged, mnPingData, mnFinal, mnError, mnEnv,
                   mnSorted, inputMaxDelayMs, inputMinDelayMs>>
    /\ UNCHANGED <<poolVars, matchVars, streamVars, xrVars, spVars, tnVars,
                   pbVars, hpVars, rgVars, cfVars, grVars, ldVars>>

\* runPing has resolved: sort, filter, and call testDownloadSpeed
MainAfterPing ==
    /\ mnState = "ping"
    /\ \E env \in [1..Len(mnIps) -> PingOutcomes],
          order \in CompletionOrders(Len(mnIps)) :
         LET sorted == sortByDelayAndLoss(runPing(mnIps, env, order))
             pingData == filterLossRate(
                             filterDelay(sorted, inputMaxDelayMs, inputMinDelayMs),
                             1, 1)
         IN  /\ mnEnv' = env
             /\ mnSorted' = sorted
             /\ mnPingData' = pingData
             /\ ipSet' = pingData
             /\ spEnv' \in Profiles(Len(pingData))
    /\ mnPinged' = Len(mnIps) * PingTimes
    /\ spState' = "init"
    /\ mnState' = "speed"
    /\ UNCHANGED <<mnIps, mnFinal, mnExit, mnError, inputMaxDelayMs,
                   inputMinDelayMs>>
    /\ UNCHANGED <<disable, testCount, minSpeed, spI, spResults, spReturn>>
    /\ UNCHANGED <<poolVars, matchVars, streamVars, xrVars, tnVars, pbVars,
                   hpVars, rgVars, cfVars, grVars, ldVars>>

\* testDownloadSpeed has resolved: sortBySpeed and call testXrayForIps
MainAfterSpeed ==
    /\ mnState = "speed" /\ spState = "returned"
    /\ xrIpSet' = IpsOf(sortBySpeed(spReturn))
    /\ xrState' = "init"
    /\ mnState' = "xray"
    /\ UNCHANGED <<mnIps, mnPinged, mnPingData, mnFinal, mnExit, mnError,
                   mnEnv, mnSorted, inputMaxDelayMs, inputMinDelayMs>>
    /\ UNCHANGED <<xrayConfigPath, xrayTestUrl, xrayTemplate, xrayMaxCount, xrI, xrOut,
                   xrError, xrReturn, xrSpawned, xrTmpFiles, xrProcs, xrAlive,
                   xrServedBy, xrTurn>>
    /\ UNCHANGED <<poolVars, matchVars, streamVars, spVars, tnVars, pbVars,
                   hpVars, rgVars, cfVars, grVars, ldVars>>

\* testXrayForIps has settled: exportCsv(finalData), printResults(finalData)
\* and the call of checkUpdate; or main().catch: console.error(err);
\* process.exit(1)
MainAfterXray ==
    /\ mnState = "xray" /\ xrState \in {"resolved", "rejected"}
    /\ IF xrState = "resolved"
       THEN /\ mnFinal' = xrReturn
            /\ mnState' = "update"
            /\ UNCHANGED <<mnExit, mnError>>
       ELSE /\ mnExit' = "1"
            /\ mnError' = xrError
            /\ mnState' = "exited"
            /\ mnFinal' = mnFinal
    /\ UNCHANGED <<mnIps, mnPinged, mnPingData, mnEnv, mnSorted,
                   inputMaxDelayMs, inputMinDelayMs>>
    /\ UNCHANGED <<poolVars, matchVars, streamVars, xrVars, spVars, tnVars,
                   pbVars, hpVars, rgVars, cfVars, grVars, ldVars>>

\* checkUpdate has resolved, with a tag or with "" (its fetch is bounded
\* by AbortSignal.timeout and every failure is caught): main returns and
\* the process ends with status 0.
MainAfterUpdate ==
    /\ mnState = "update"
    /\ mnExit' = "0"
    /\ mnState' = "exited"
    /\ UNCHANGED <<mnIps, mnPinged, mnPingData, mnFinal, mnError, mnEnv,
                   mnSorted, inputMaxDelayMs, inputMinDelayMs>>
    /\ UNCHANGED <<poolVars, matchVars, streamVars, xrVars, spVars, tnVars,
                   pbVars, hpVars, rgVars, cfVars, grVars, ldVars>>

MainNext ==
    \/ MainLoad
    \/ MainAfterPing
    \/ SpeedStart
    \/ SpeedBatch
    \/ MainAfterSpeed
    \/ XrayStart
    \/ XraySpawnInMain
    \/ XrayPortInMain
    \/ XrayRequestInMain
    \/ XrayReturn
    \/ MainAfterXray
    \/ MainAfterUpdate

SpecMain == MainInit /\ [][MainNext]_vars

\* ---- claims about main ---------------------------------------------------

\* Network probes of candidates started so far in the run: the pings of
\* the latency pass and the downloads of the speed stage.
ProbesStarted == mnPinged + Min(spI, Len(ipSet))

\* C13: when the run ends with a configuration error of the proxy template,
\* no network probe of any candidate has been started.
C13_ConfigErrorBeforeProbing ==
    (mnState = "exited" /\ mnError = "config") => ProbesStarted = 0

\* ---- claims about the ranking of the first pass --------------------------

\* The ranked list holds exactly the addresses that answered at least one
\* ping, each once.
RankedAreTheAnswering ==
    /\ \A k \in 1..Len(mnIps) :
         Cardinality({j \in 1..Len(mnSorted) : mnSorted[j].ip = mnIps[k]})
             = IF mnEnv[k].received > 0 THEN 1 ELSE 0
    /\ \A j \in 1..Len(mnSorted) : \E k \in 1..Len(mnIps) : mnSorted[j].ip = mnIps[k]

\* C26 as stated: after runPing and sortByDelayAndLoss the list holds
\* exactly the candidates with at least one successful probe, each once, in
\* ascending order of mean latency, whatever the number of probes.
C26_RankedByLatency ==
    mnEnv # <<>> =>
        /\ RankedAreTheAnswering
        /\ \A j \in 1..(Len(mnSorted) - 1) :
             mnSorted[j].delayMs <= mnSorted[j + 1].delayMs

\* C26 amended: the list holds exactly the candidates with at least one
\* successful probe, each once, in ascending order of loss rate, and of
\* mean latency among candidates of equal loss rate.
C26_RankedByLossThenLatency ==
    mnEnv # <<>> =>
        /\ RankedAreTheAnswering
        /\ \A j \in 1..(Len(mnSorted) - 1) :
             LET a == mnSorted[j]
                 b == mnSorted[j + 1]
             IN  \/ (a.sent - a.received) * b.sent < (b.sent - b.received) * a.sent
                 \/ /\ (a.sent - a.received) * b.sent = (b.sent - b.received) * a.sent
                    /\ a.delayMs <= b.delayMs

\* Two addresses were ranked, the one that lost a ping being the quicker.
C26_Witness ==
    /\ mnEnv # <<>>
    /\ Len(mnSorted) = 2
    /\ mnSorted[1].received > mnSorted[2].received
    /\ mnSorted[1].delayMs > mnSorted[2].delayMs

\* C27: whatever -tl and -tll are, every result that remains after
\* filterDelay has inputMinDelayMs <= delayMs <= inputMaxDelayMs, and every
\* ranked result within those bounds remains.
C27_FilterDelayWithinBounds ==
    mnEnv # <<>> =>
        /\ \A j \in 1..Len(mnPingData) :
             /\ inputMinDelayMs <= mnPingData[j].delayMs
             /\ mnPingData[j].delayMs <= inputMaxDelayMs
        /\ \A j \in 1..Len(mnSorted) :
             (inputMinDelayMs <= mnSorted[j].delayMs
                 /\ mnSorted[j].delayMs <= inputMaxDelayMs)
               => \E i \in 1..Len(mnPingData) : mnPingData[i] = mnSorted[j]

\* ========================================================================
\* PROXY TUNNELS (readUntil, httpProxyTunnel, socksProxyTunnel,
\* requestThroughProxy)
\* ========================================================================

\* SOCKS5 (RFC 1928) as the code uses it
SOCKS_VERSION == 5          \* 0x05
NO_AUTH == 0                \* 0x00
HELLO_LENGTH == 2           \* buf.length >= 2
CONNECT_REPLY_LENGTH == 10  \* buf.length >= 10
ATYP_IPV4 == 1
ATYP_DOMAIN == 3

\* k filler bytes
Zeros(k) == [j \in 1..k |-> 0]

\* Method-selection replies a server may give
HelloReplies == {<<5, 0>>, <<5, 2>>, <<5, 255>>, <<4, 0>>}

\* A complete reply to CONNECT: VER REP RSV ATYP BND.ADDR BND.PORT
SocksReply(status, atyp, dlen) ==
    IF atyp = ATYP_IPV4
    THEN <<SOCKS_VERSION, status, 0, ATYP_IPV4>> \o Zeros(4) \o Zeros(2)
    ELSE <<SOCKS_VERSION, status, 0, ATYP_DOMAIN, dlen>> \o Zeros(dlen) \o Zeros(2)

\* Lengths of the bound domain name in a domain-type reply
DomainLengths == 1..MaxDomain

ConnectReplies ==
    {SocksReply(st, ATYP_IPV4, 0) : st \in {0, 5}}
      \cup {SocksReply(st, ATYP_DOMAIN, dl) : st \in {0, 5}, dl \in DomainLengths}

\* Responses of an HTTP proxy, as pieces of text; "CRLF" is "\r\n".
HttpResponses ==
    {<<"HTTP/1.1 ", "200", " Connection established", "CRLF", "CRLF">>,
     <<"HTTP/1.1 ", "200", " OK", "CRLF", "Via: proxy", "CRLF", "CRLF">>,
     <<"HTTP/1.1 ", "407", " Proxy Authentication Required", "CRLF",
       "Proxy-Authenticate: Basic", "CRLF", "CRLF">>,
     <<"HTTP/1.1 ", "503", " Unavailable", "CRLF", "Retry-After: ", "200",
       "CRLF", "CRLF">>}

\* buf.toString("utf8").includes("\r\n\r\n")
HasBlankLine(buf) ==
    \E k \in 1..(Len(buf) - 1) : buf[k] = "CRLF" /\ buf[k + 1] = "CRLF"

\* data.toString("utf8").split("\r\n")[0]
FirstLine(buf) ==
    LET ends == {k \in 1..Len(buf) : buf[k] = "CRLF"}
    IN  IF ends = {} THEN buf
        ELSE SubSeq(buf, 1, (CHOOSE k \in ends : \A j \in ends : k <= j) - 1)

\* line.includes("200")
Includes200(line) == \E k \in 1..Len(line) : line[k] = "200"

\* httpProxyTunnel: the test on the response read up to the blank line
HttpStatusOkAnywhere(buf) == Includes200(buf)
HttpStatusOk(buf) == Includes200(FirstLine(buf))

\* socksProxyTunnel: hello[0] !== 0x05 || hello[1] !== 0x00 is false
SocksHelloOk(hello) == hello[1] = SOCKS_VERSION /\ hello[2] = NO_AUTH

\* socksProxyTunnel: resp[1] !== 0x00 is false
SocksReplyOk(resp) == resp[2] = 0

\* The matcher given to readUntil in each phase
Matches(phase, buf) ==
    CASE phase = "hello" -> Len(buf) >= HELLO_LENGTH
      [] phase = "connect" -> Len(buf) >= CONNECT_REPLY_LENGTH
      [] phase = "headers" -> HasBlankLine(buf)
      [] OTHER -> FALSE

\* The state of the socket once the first response byte has been handled
\* (socket.destroy() in the "data" listener of requestThroughProxy).
AfterFirstByteLeftOpen == "open"
AfterFirstByte == "destroyed"

Handshaking == tnPhase \in {"connecting", "hello", "connect", "headers"}

TunnelInit ==
    /\ tnProto \in {"socks", "http"}
    /\ tnHttps \in BOOLEAN
    /\ tnHello \in (IF tnProto = "socks" THEN HelloReplies ELSE {<<>>})
    /\ tnFull \in (IF tnProto = "socks" THEN ConnectReplies ELSE HttpResponses)
    /\ tnCut \in 0..Len(tnFull)
    /\ tnPhase = "connecting"
    /\ tnWire = <<>>
    /\ tnBuf = <<>>
    /\ tnSock = "connecting"
    /\ tnTunnel = "pending"
    /\ tnErr = "none"
    /\ tnReq = "pending"
    /\ tnElapsed = 0
    /\ tnLast = "none"
    /\ PoolIdle /\ MatchIdle /\ StreamIdle /\ XrayIdle /\ SpeedIdle /\ MainIdle
    /\ ProbeIdle /\ HttpProbeIdle /\ RangesIdle /\ ConfigIdle /\ RandomIpsIdle
    /\ LoadIdle

\* The tunnel promise rejects; the await in requestThroughProxy throws.
RejectTunnel(err) ==
    /\ tnTunnel' = "rejected"
    /\ tnErr' = err
    /\ tnReq' = "rejected"
    /\ tnPhase' = "done"

\* The tunnel promise resolves; requestThroughProxy layers TLS if the URL
\* is https, writes the GET request and waits for the first byte.
ResolveTunnel ==
    /\ tnTunnel' = "resolved"
    /\ tnPhase' = "request"
    /\ UNCHANGED <<tnErr, tnReq, tnSock>>

\* The connect callback of net.connect: write the greeting (socks) or the
\* CONNECT request (http) and start reading the answer.
TnConnect ==
    /\ tnPhase = "connecting" /\ tnSock = "connecting"
    /\ tnSock' = "open"
    /\ tnPhase' = IF tnProto = "socks" THEN "hello" ELSE "headers"
    /\ tnWire' = IF tnProto = "socks" THEN tnHello ELSE SubSeq(tnFull, 1, tnCut)
    /\ tnBuf' = <<>>
    /\ tnLast' = "connect"
    /\ UNCHANGED <<tnProto, tnHttps, tnHello, tnFull, tnCut, tnTunnel, tnErr,
                   tnReq, tnElapsed>>
    /\ UNCHANGED <<poolVars, matchVars, streamVars, xrVars, spVars, mnVars,
                   pbVars, hpVars, rgVars, cfVars, grVars, ldVars>>

\* A chunk arrives during the handshake: onData of readUntil, and when the
\* matcher is satisfied the code after the await.
TnData ==
    /\ tnPhase \in {"hello", "connect", "headers"} /\ tnSock = "open"
    /\ \E k \in 1..Len(tnWire) :
         LET buf == tnBuf \o SubSeq(tnWire, 1, k)
             rest == SubSeq(tnWire, k + 1, Len(tnWire))
         IN  IF ~Matches(tnPhase, buf)
             THEN /\ tnBuf' = buf
                  /\ tnWire' = rest
                  /\ UNCHANGED <<tnPhase, tnSock, tnTunnel, tnErr, tnReq>>
             ELSE CASE tnPhase = "hello" ->
                         IF SocksHelloOk(buf)
                         THEN /\ tnPhase' = "connect"
                              /\ tnBuf' = <<>>
                              /\ tnWire' = rest \o SubSeq(tnFull, 1, tnCut)
                              /\ UNCHANGED <<tnSock, tnTunnel, tnErr, tnReq>>
                         ELSE /\ tnSock' = "destroyed"
                              /\ RejectTunnel("socks auth failed")
                              /\ tnBuf' = buf /\ tnWire' = rest
                    [] tnPhase = "connect" ->
                         IF SocksReplyOk(buf)
                         THEN ResolveTunnel /\ tnBuf' = buf /\ tnWire' = rest
                         ELSE /\ tnSock' = "destroyed"
                              /\ RejectTunnel("socks connect failed")
                              /\ tnBuf' = buf /\ tnWire' = rest
                    [] tnPhase = "headers" ->
                         IF HttpStatusOk(buf)
                         THEN ResolveTunnel /\ tnBuf' = buf /\ tnWire' = rest
                         ELSE /\ tnSock' = "destroyed"
                              /\ RejectTunnel("proxy connect failed")
                              /\ tnBuf' = buf /\ tnWire' = rest
    /\ tnLast' = "data"
    /\ UNCHANGED <<tnProto, tnHttps, tnHello, tnFull, tnCut, tnElapsed>>
    /\ UNCHANGED <<poolVars, matchVars, streamVars, xrVars, spVars, mnVars,
                   pbVars, hpVars, rgVars, cfVars, grVars, ldVars>>

\* The socket fails during the handshake.  net.Socket emits "error" while
\* it destroys itself; the listeners (reject, onError of readUntil and the
\* catch block) reject the tunnel promise.
TnError ==
    /\ Handshaking /\ tnSock \in {"connecting", "open"}
    /\ tnSock' = "destroyed"
    /\ RejectTunnel("socket error")
    /\ tnLast' = "error"
    /\ UNCHANGED <<tnProto, tnHttps, tnHello, tnFull, tnCut, tnWire, tnBuf,
                   tnElapsed>>
    /\ UNCHANGED <<poolVars, matchVars, streamVars, xrVars, spVars, mnVars,
                   pbVars, hpVars, rgVars, cfVars, grVars, ldVars>>

\* The socket stays idle for timeoutMs during the handshake: the callback
\* of socket.setTimeout destroys it and rejects.
TnTimeout ==
    /\ Handshaking /\ tnSock \in {"connecting", "open"}
    /\ tnWire = <<>>
    /\ tnSock' = "destroyed"
    /\ RejectTunnel(IF tnProto = "socks" THEN "socks timeout" ELSE "proxy timeout")
    /\ tnLast' = "timeout"
    /\ UNCHANGED <<tnProto, tnHttps, tnHello, tnFull, tnCut, tnWire, tnBuf,
                   tnElapsed>>
    /\ UNCHANGED <<poolVars, matchVars, streamVars, xrVars, spVars, mnVars,
                   pbVars, hpVars, rgVars, cfVars, grVars, ldVars>>

\* The server closes the connection after what it sent.  No listener is
\* registered for "end" or "close": the socket closes, its timer is
\* cleared, and no promise settles.
TnEnd ==
    /\ tnPhase \in {"hello", "connect", "headers", "request"} /\ tnSock = "open"
    /\ tnWire = <<>>
    /\ tnSock' = "destroyed"
    /\ tnPhase' = "hung"
    /\ tnLast' = "end"
    /\ UNCHANGED <<tnProto, tnHttps, tnHello, tnFull, tnCut, tnWire, tnBuf,
                   tnTunnel, tnErr, tnReq, tnElapsed>>
    /\ UNCHANGED <<poolVars, matchVars, streamVars, xrVars, spVars, mnVars,
                   pbVars, hpVars, rgVars, cfVars, grVars, ldVars>>

\* requestThroughProxy: the first byte of the response arrives
TnReqData ==
    /\ tnPhase = "request" /\ tnSock = "open"
    /\ \E elapsed \in {0, 35} : tnElapsed' = elapsed
    /\ tnSock' = AfterFirstByte
    /\ tnReq' = "resolved"
    /\ tnPhase' = "done"
    /\ tnLast' = "data"
    /\ UNCHANGED <<tnProto, tnHttps, tnHello, tnFull, tnCut, tnWire, tnBuf,
                   tnTunnel, tnErr>>
    /\ UNCHANGED <<poolVars, matchVars, streamVars, xrVars, spVars, mnVars,
                   pbVars, hpVars, rgVars, cfVars, grVars, ldVars>>

\* requestThroughProxy: the socket (or the TLS layered on it) fails, or
\* stays idle for timeoutMs.  An errored socket has destroyed itself and
\* resolve(0) runs.  On idleness two timers are armed: the one the tunnel
\* function left on the tunnel socket, whose callback destroys the socket
\* and calls a reject that no longer has an effect, and the one of
\* requestThroughProxy, whose callback destroys the socket and resolves 0.
\* With an http URL both are callbacks of the same socket and both run.
\* With an https URL they are timers of two sockets: while the TLS
\* handshake is still under way the one of the tunnel socket fires first,
\* the TLS socket is closed under the request, its callback never runs and
\* the promise stays pending; once the handshake is done the timer of the
\* TLS socket fires and resolves 0.
TnReqFail ==
    /\ tnPhase = "request" /\ tnSock = "open"
    /\ \E ev \in {"error", "timeout"}, tls \in {"handshaking", "secure"} :
         /\ tnLast' = ev
         /\ IF ev = "timeout" /\ tnHttps /\ tls = "handshaking"
            THEN /\ tnPhase' = "hung"
                 /\ UNCHANGED <<tnReq, tnElapsed>>
            ELSE /\ tnElapsed' = 0
                 /\ tnReq' = "resolved"
                 /\ tnPhase' = "done"
    /\ tnSock' = "destroyed"
    /\ UNCHANGED <<tnProto, tnHttps, tnHello, tnFull, tnCut, tnWire, tnBuf,
                   tnTunnel, tnErr>>
    /\ UNCHANGED <<poolVars, matchVars, streamVars, xrVars, spVars, mnVars,
                   pbVars, hpVars, rgVars, cfVars, grVars, ldVars>>

TunnelNext ==
    \/ TnConnect
    \/ TnData
    \/ TnError
    \/ TnTimeout
    \/ TnEnd
    \/ TnReqData
    \/ TnReqFail

SpecTunnel == TunnelInit /\ [][TunnelNext]_vars

\* ---- claims about the tunnels ----------------------------------------------

\* The server refuses: its method-selection reply is not version 5 /
\* no-auth, or its reply to CONNECT carries a non-zero status byte.
SocksBadHello == tnProto = "socks" /\ ~(tnHello[1] = 5 /\ tnHello[2] = 0)
SocksRefusal == tnProto = "socks" /\ tnFull[2] # 0

\* C14: when the SOCKS5 server refuses (its whole reply to CONNECT, with a
\* non-zero status byte, was sent; or its method-selection reply is other
\* than version 5 / no-auth) the handshake always fails: the tunnel never
\* resolves, and once the handshake is over, with nothing more to come
\* from the server, socksProxyTunnel has rejected and the socket to the
\* proxy is destroyed.
C14_SocksRefusalFails ==
    (SocksBadHello \/ (SocksRefusal /\ tnCut = Len(tnFull))) =>
        /\ tnTunnel # "resolved" /\ tnReq # "resolved"
        /\ tnPhase \in {"done", "hung"} =>
              (tnTunnel = "rejected" /\ tnSock = "destroyed")

\* C15: socksProxyTunnel resolves only after the complete reply to CONNECT
\* has been read (10 bytes for an IPv4 reply, the whole variable length
\* for a domain-type reply), and a reply that stops short of its length
\* is not reported as a timeout.
C15_CompleteReplyRead ==
    tnProto = "socks" =>
        /\ tnTunnel = "resolved" => Len(tnBuf) = Len(tnFull)
        /\ (tnPhase = "done" /\ tnCut < Len(tnFull) /\ tnBuf # <<>>
               /\ tnLast = "timeout")
             => tnErr # "socks timeout"

\* C16: httpProxyTunnel resolves if and only if the response, read up to
\* the blank line, has 200 in its first line; with any other status line
\* it rejects and the socket is destroyed, and so it does on timeout.
C16_HttpTunnelIff200 ==
    tnProto = "http" =>
        /\ tnTunnel = "resolved" =>
              (Len(tnBuf) = Len(tnFull) /\ tnFull[2] = "200")
        /\ (Len(tnBuf) = Len(tnFull) /\ tnFull[2] = "200") =>
              tnTunnel = "resolved"
        /\ (Len(tnBuf) = Len(tnFull) /\ tnFull[2] # "200") =>
              (tnTunnel = "rejected" /\ tnSock = "destroyed"
                 /\ tnErr = "proxy connect failed")
        /\ (tnLast = "timeout" /\ tnTunnel # "resolved") =>
              (tnTunnel = "rejected" /\ tnSock = "destroyed")

\* C16 witness: a 407 answer read to its blank line and refused.
C16_Witness ==
    /\ tnProto = "http" /\ tnFull[2] = "407"
    /\ tnTunnel = "rejected" /\ tnErr = "proxy connect failed"
    /\ tnSock = "destroyed"

\* C17: whenever requestThroughProxy has finished (resolved with the
\* elapsed time or 0, or thrown because the tunnel could not be opened),
\* the socket to the proxy has been destroyed.
C17_TunnelClosedOnExit ==
    tnReq # "pending" => tnSock = "destroyed"

\* C17 witness: the first byte of a response came through TLS over a
\* SOCKS tunnel.
C17_Witness ==
    /\ tnReq = "resolved" /\ tnElapsed > 0
    /\ tnHttps /\ tnProto = "socks"
    /\ tnSock = "destroyed"


\* C28: every proxy validation attempt eventually finishes whatever the
\* proxy does.  As long as the request through the proxy has not settled,
\* some event (data, error, idle timeout) is still due that moves it on.
C28_AttemptFinishes == tnReq = "pending" => ENABLED TunnelNext

\* ========================================================================
\* FIRST-PASS PROBE OF ONE ADDRESS (ping.ts: tcping, checkConnection,
\* checkCdnTrace, runOne), in TCP mode (httping = false)
\* ========================================================================
\* One call of runOne(ip) against one server, as the sequence of socket and
\* request events the run-to-completion callbacks of the code react to.
\* The custom createConnection handed to new https.Agent(...) is not an
\* option the Agent reads: the request goes through the agent's own
\* tls.connect with the request's timeout, so the 'timeout' of the socket is
\* delivered to the request from the moment the socket is created.

TRACE_TIMEOUT_MS == 2500

\* What listens at ip:tcpPort
\*   closed     nobody listens: the connect is refused
\*   blackhole  packets are dropped: no answer at all
\*   silent     accepts the connection, never sends a byte
\*   lossy      a CDN edge behind a link that loses some of the connects
\*   cdn        a CDN edge: 200 and a body with colo= and ip= lines
\*   other      some other web server: 200 and a body without the markers
\*   denying    answers 403
\*   resetting  accepts, then resets the connection on the first request
\*   bulky      a CDN edge whose 200 body is longer than checkCdnTrace reads
Servers == {"closed", "blackhole", "silent", "lossy", "cdn", "other",
            "denying", "resetting", "bulky"}

\* Date.now() - start of a successful connect
ConnectDelays == {1, 30}
\* time a trace request that was answered took
TraceAnswerMs == 120

\* The events a connecting socket of tcping can meet at this server
TcpEvents(server) ==
    CASE server = "closed" -> {"error"}
      [] server = "blackhole" -> {"timeout"}
      [] server = "lossy" -> {"connect", "timeout", "error"}
      [] OTHER -> {"connect"}

\* checkCdnTrace stops reading a body once data.length > 4096
TraceBodyLimit == 4096

\* A line that by itself has as many characters as the limit
Filler == <<"<!--", "padding -->">>

\* The response bodies, as lines split into the part a startsWith test
\* looks at and the rest
TraceBodies ==
    [cdn |-> << <<"fl=", "29f1">>, <<"ip=", "203.0.113.7">>,
                <<"colo=", "FRA">> >>,
     other |-> << <<"<html>", "">>, <<"x-colo=", "FRA">> >>,
     lossy |-> << <<"colo=", "AMS">>, <<"ip=", "203.0.113.9">> >>,
     bulky |-> << <<"colo=", "FRA">>, <<"ip=", "203.0.113.7">>, Filler >>]

\* data.length: the characters of the lines received so far
RECURSIVE DataLength(_)
DataLength(data) ==
    IF data = <<>> THEN 0
    ELSE (IF Head(data) = Filler THEN TraceBodyLimit ELSE 16)
            + DataLength(Tail(data))

\* parseTraceBody: some line starts with colo= and some line with ip=
parseTraceBody(body) ==
    /\ body # <<>>
    /\ \E k \in 1..Len(body) : body[k][1] = "colo="
    /\ \E k \in 1..Len(body) : body[k][1] = "ip="

\* tcping: what each listener resolves the promise with
tcpingAlwaysOk(event, delay) == [ok |-> TRUE, delayMs |-> delay]
tcping(event, delay) ==
    IF event = "connect" THEN [ok |-> TRUE, delayMs |-> delay]
    ELSE [ok |-> FALSE, delayMs |-> 0]

\* The values of the option traceUrl: the default, and the same over http
TraceUrls == {[protocol |-> "https:"], [protocol |-> "http:"]}

\* How long the socket of the trace request has been idle when the request
\* emits 'timeout'.  Over https the request is written while the TLS
\* handshake is pending, and the first expiry of the timer passes without
\* the event: a server that never completes the handshake is given twice
\* TRACE_TIMEOUT_MS.  Once the handshake is done, and over http, the event
\* comes after TRACE_TIMEOUT_MS.
TraceIdleMs(url, server, req) ==
    IF url.protocol = "https:" /\ req = "sent"
    THEN IF server = "silent" THEN {2 * TRACE_TIMEOUT_MS}
         ELSE {TRACE_TIMEOUT_MS, 2 * TRACE_TIMEOUT_MS}
    ELSE {TRACE_TIMEOUT_MS}

\* req.on("timeout", () => { req.destroy(); resolve(false); })
TraceTimeoutUnhandled == [destroy |-> FALSE, resolve |-> FALSE]
TraceTimeoutListener == [destroy |-> TRUE, resolve |-> TRUE]

ProbeInit ==
    /\ pbServer \in Servers
    /\ traceUrl \in TraceUrls
    /\ skipTrace \in BOOLEAN
    /\ pbPhase = "loop"
    /\ pbI = 0 /\ pbRecv = 0 /\ pbTotalDelayMs = 0
    /\ pbPings = <<>>
    /\ pbSock = "none" /\ pbReq = "none" /\ pbTimer = "off"
    /\ pbData = <<>>
    /\ pbTraceOk = "pending" /\ pbTraceMs = 0
    /\ pbOutcome = "pending" /\ pbRecord = NoRecord
    /\ pbGrown = 0
    /\ PoolIdle /\ MatchIdle /\ StreamIdle /\ XrayIdle /\ SpeedIdle /\ MainIdle
    /\ TunnelIdle /\ HttpProbeIdle /\ RangesIdle /\ ConfigIdle /\ RandomIpsIdle
    /\ LoadIdle

\* The promise of tcping resolved with r: the loop of checkConnection goes on
TcpingResolved(event, r) ==
    /\ pbPings' = Append(pbPings, [event |-> event, ok |-> r.ok,
                                   delayMs |-> r.delayMs])
    /\ pbRecv' = IF r.ok THEN pbRecv + 1 ELSE pbRecv
    /\ pbTotalDelayMs' = IF r.ok THEN pbTotalDelayMs + r.delayMs
                         ELSE pbTotalDelayMs
    /\ pbI' = pbI + 1
    /\ pbPhase' = "loop"
    /\ pbSock' = "destroyed"
    /\ pbTimer' = "off"

\* checkConnection: for (i < pingTimes) { r = await tcping(ip) ... } up to
\* the creation of the socket
TcpingStart ==
    /\ pbPhase = "loop" /\ pbI < PingTimes
    /\ pbPhase' = "tcping"
    /\ pbSock' = "connecting"
    /\ pbTimer' = "armed"
    /\ UNCHANGED pbGrown
    /\ UNCHANGED <<pbServer, traceUrl, skipTrace, pbI, pbRecv, pbTotalDelayMs, pbPings,
                   pbReq, pbData, pbTraceOk, pbTraceMs, pbOutcome, pbRecord>>
    /\ UNCHANGED <<poolVars, matchVars, streamVars, xrVars, spVars, mnVars,
                   tnVars, hpVars, rgVars, cfVars, grVars, ldVars>>

\* the connect callback: sock.destroy(); resolve({ ok: true, delayMs })
TcpingConnect ==
    /\ pbPhase = "tcping" /\ pbSock = "connecting"
    /\ "connect" \in TcpEvents(pbServer)
    /\ \E delay \in ConnectDelays :
         TcpingResolved("connect", tcping("connect", delay))
    /\ UNCHANGED pbGrown
    /\ UNCHANGED <<pbServer, traceUrl, skipTrace, pbReq, pbData, pbTraceOk, pbTraceMs,
                   pbOutcome, pbRecord>>
    /\ UNCHANGED <<poolVars, matchVars, streamVars, xrVars, spVars, mnVars,
                   tnVars, hpVars, rgVars, cfVars, grVars, ldVars>>

\* sock.on("error", () => resolve({ ok: false, delayMs: 0 })); the socket
\* that emits 'error' is destroyed by the runtime
TcpingError ==
    /\ pbPhase = "tcping" /\ pbSock = "connecting"
    /\ "error" \in TcpEvents(pbServer)
    /\ TcpingResolved("error", tcping("error", 0))
    /\ UNCHANGED pbGrown
    /\ UNCHANGED <<pbServer, traceUrl, skipTrace, pbReq, pbData, pbTraceOk, pbTraceMs,
                   pbOutcome, pbRecord>>
    /\ UNCHANGED <<poolVars, matchVars, streamVars, xrVars, spVars, mnVars,
                   tnVars, hpVars, rgVars, cfVars, grVars, ldVars>>

\* sock.setTimeout(TCP_CONNECT_TIMEOUT, () => { sock.destroy(); resolve(..) })
TcpingTimeout ==
    /\ pbPhase = "tcping" /\ pbSock = "connecting" /\ pbTimer = "armed"
    /\ "timeout" \in TcpEvents(pbServer)
    /\ TcpingResolved("timeout", tcping("timeout", 0))
    /\ UNCHANGED pbGrown
    /\ UNCHANGED <<pbServer, traceUrl, skipTrace, pbReq, pbData, pbTraceOk, pbTraceMs,
                   pbOutcome, pbRecord>>
    /\ UNCHANGED <<poolVars, matchVars, streamVars, xrVars, spVars, mnVars,
                   tnVars, hpVars, rgVars, cfVars, grVars, ldVars>>

\* bar.grow(1): the completed count of the progress bar
BarGrow(n) == n + 1

\* runOne after `await checkConnection(ip)`, up to `await checkCdnTrace(ip)`
\* or to its return
RunOneVerifiesFirst ==
    /\ pbPhase = "loop" /\ pbI >= PingTimes
    /\ pbGrown' = BarGrow(pbGrown)
    /\ IF ~skipTrace
       THEN /\ pbPhase' = "trace" /\ pbReq' = "sent" /\ pbTimer' = "armed"
            /\ UNCHANGED <<pbOutcome, pbRecord>>
       ELSE /\ pbPhase' = "settled"
            /\ pbOutcome' = IF pbRecv = 0 THEN "null" ELSE "accepted"
            /\ pbRecord' = IF pbRecv = 0 THEN pbRecord
                           ELSE [sent |-> PingTimes, received |-> pbRecv,
                                 totalDelayMs |-> pbTotalDelayMs]
            /\ UNCHANGED <<pbReq, pbTimer>>
    /\ UNCHANGED <<pbServer, traceUrl, skipTrace, pbI, pbRecv, pbTotalDelayMs, pbPings,
                   pbSock, pbData, pbTraceOk, pbTraceMs>>
    /\ UNCHANGED <<poolVars, matchVars, streamVars, xrVars, spVars, mnVars,
                   tnVars, hpVars, rgVars, cfVars, grVars, ldVars>>
RunOneAfterPing ==
    /\ pbPhase = "loop" /\ pbI >= PingTimes
    /\ pbGrown' = BarGrow(pbGrown)           \* bar.grow(1)
    /\ IF pbRecv = 0
       THEN /\ pbPhase' = "settled" /\ pbOutcome' = "null"
            /\ UNCHANGED <<pbReq, pbTimer, pbRecord>>
       ELSE IF ~skipTrace
       THEN /\ pbPhase' = "trace" /\ pbReq' = "sent" /\ pbTimer' = "armed"
            /\ UNCHANGED <<pbOutcome, pbRecord>>
       ELSE /\ pbPhase' = "settled" /\ pbOutcome' = "accepted"
            /\ pbRecord' = [sent |-> PingTimes, received |-> pbRecv,
                            totalDelayMs |-> pbTotalDelayMs]
            /\ UNCHANGED <<pbReq, pbTimer>>
    /\ UNCHANGED <<pbServer, traceUrl, skipTrace, pbI, pbRecv, pbTotalDelayMs, pbPings,
                   pbSock, pbData, pbTraceOk, pbTraceMs>>
    /\ UNCHANGED <<poolVars, matchVars, streamVars, xrVars, spVars, mnVars,
                   tnVars, hpVars, rgVars, cfVars, grVars, ldVars>>

\* checkCdnTrace resolved with ok after ms: runOne returns null or the record
TraceResolved(ok, ms) ==
    /\ pbTraceOk' = IF ok THEN "true" ELSE "false"
    /\ pbTraceMs' = ms
    /\ pbPhase' = "settled"
    /\ pbOutcome' = IF ok THEN "accepted" ELSE "null"
    /\ pbRecord' = IF ok THEN [sent |-> PingTimes, received |-> pbRecv,
                               totalDelayMs |-> pbTotalDelayMs]
                   ELSE pbRecord

\* req.on("response", ...): a status other than 200 destroys the response
\* and resolves false; on 200 the body listeners are installed
TraceResponse ==
    /\ pbPhase = "trace" /\ pbReq = "sent"
    /\ pbServer \in {"cdn", "other", "lossy", "denying", "bulky"}
    /\ IF pbServer = "denying"
       THEN /\ pbReq' = "destroyed" /\ pbTimer' = "off"
            /\ TraceResolved(FALSE, TraceAnswerMs)
       ELSE /\ pbReq' = "body"
            /\ UNCHANGED <<pbTimer, pbTraceOk, pbTraceMs, pbPhase, pbOutcome,
                           pbRecord>>
    /\ UNCHANGED pbGrown
    /\ UNCHANGED <<pbServer, traceUrl, skipTrace, pbI, pbRecv, pbTotalDelayMs, pbPings,
                   pbSock, pbData>>
    /\ UNCHANGED <<poolVars, matchVars, streamVars, xrVars, spVars, mnVars,
                   tnVars, hpVars, rgVars, cfVars, grVars, ldVars>>

\* res.on("data", (chunk) => { data += chunk; if (data.length > 4096)
\* res.destroy(); }): a chunk of the body arrives.  The timer goes with the
\* socket of a destroyed response.  When the chunk was the last of the
\* message and the end of the message was read with it (the Content-Length
\* is reached, or the closing chunk came in the same segment), the response
\* has ended before it was destroyed and its 'end' is still emitted; when
\* more of the message is to come, the destroyed response emits neither
\* 'end' nor 'error' and the promise of checkCdnTrace is left pending.
TraceData ==
    /\ pbPhase = "trace" /\ pbReq = "body"
    /\ Len(pbData) < Len(TraceBodies[pbServer])
    /\ \E n \in (Len(pbData) + 1)..Len(TraceBodies[pbServer]) :
         /\ pbData' = SubSeq(TraceBodies[pbServer], 1, n)
         /\ IF DataLength(pbData') > TraceBodyLimit
            THEN /\ pbTimer' = "off"
                 /\ \E complete \in {c \in BOOLEAN :
                                       c => n = Len(TraceBodies[pbServer])} :
                      pbReq' = IF complete THEN "ended" ELSE "destroyed"
            ELSE UNCHANGED <<pbReq, pbTimer>>
    /\ UNCHANGED <<pbTraceOk, pbTraceMs, pbPhase, pbOutcome, pbRecord, pbGrown>>
    /\ UNCHANGED <<pbServer, traceUrl, skipTrace, pbI, pbRecv, pbTotalDelayMs, pbPings,
                   pbSock>>
    /\ UNCHANGED <<poolVars, matchVars, streamVars, xrVars, spVars, mnVars,
                   tnVars, hpVars, rgVars, cfVars, grVars, ldVars>>

\* res.on("end", () => resolve(parseTraceBody(data))): the body is over,
\* read to its end within the limit or ended by the chunk that passed it
TraceEnd ==
    /\ pbPhase = "trace"
    /\ \/ pbReq = "body" /\ Len(pbData) = Len(TraceBodies[pbServer])
       \/ pbReq = "ended"
    /\ pbReq' = "done" /\ pbTimer' = "off"
    /\ TraceResolved(parseTraceBody(pbData), TraceAnswerMs)
    /\ UNCHANGED pbGrown
    /\ UNCHANGED <<pbServer, traceUrl, skipTrace, pbI, pbRecv, pbTotalDelayMs, pbPings,
                   pbSock, pbData>>
    /\ UNCHANGED <<poolVars, matchVars, streamVars, xrVars, spVars, mnVars,
                   tnVars, hpVars, rgVars, cfVars, grVars, ldVars>>

\* req.on("error", () => resolve(false)) and res.on("error", ...)
TraceError ==
    /\ pbPhase = "trace" /\ pbReq \in {"sent", "body"}
    /\ pbServer \in {"resetting", "lossy"}
    /\ pbReq' = "destroyed" /\ pbTimer' = "off"
    /\ TraceResolved(FALSE, TraceAnswerMs)
    /\ UNCHANGED pbGrown
    /\ UNCHANGED <<pbServer, traceUrl, skipTrace, pbI, pbRecv, pbTotalDelayMs, pbPings,
                   pbSock, pbData>>
    /\ UNCHANGED <<poolVars, matchVars, streamVars, xrVars, spVars, mnVars,
                   tnVars, hpVars, rgVars, cfVars, grVars, ldVars>>

\* the socket of the request was idle for TRACE_TIMEOUT_MS: the request
\* emits 'timeout'
TraceTimeout ==
    /\ pbPhase = "trace" /\ pbReq \in {"sent", "body"} /\ pbTimer = "armed"
    /\ pbServer \in {"silent", "lossy"}
    /\ pbTimer' = "fired"
    /\ pbReq' = IF TraceTimeoutListener.destroy THEN "destroyed" ELSE pbReq
    /\ IF TraceTimeoutListener.resolve
       THEN \E ms \in TraceIdleMs(traceUrl, pbServer, pbReq) :
                TraceResolved(FALSE, ms)
       ELSE UNCHANGED <<pbTraceOk, pbTraceMs, pbPhase, pbOutcome, pbRecord>>
    /\ UNCHANGED pbGrown
    /\ UNCHANGED <<pbServer, traceUrl, skipTrace, pbI, pbRecv, pbTotalDelayMs, pbPings,
                   pbSock, pbData>>
    /\ UNCHANGED <<poolVars, matchVars, streamVars, xrVars, spVars, mnVars,
                   tnVars, hpVars, rgVars, cfVars, grVars, ldVars>>

ProbeNext ==
    \/ TcpingStart
    \/ TcpingConnect
    \/ TcpingError
    \/ TcpingTimeout
    \/ RunOneAfterPing
    \/ TraceResponse
    \/ TraceData
    \/ TraceEnd
    \/ TraceError
    \/ TraceTimeout

\* The event loop delivers every event that is due: a connect or an error
\* the network produced, and the timers the code armed.
SpecProbe == ProbeInit /\ [][ProbeNext]_vars /\ WF_vars(ProbeNext)

\* ---- claims about the first-pass probe ---------------------------------

\* C19: against a server that accepts the TCP connection and never sends a
\* byte, runOne with verification enabled settles, by the timeout of the
\* verification request and no sooner than TRACE_TIMEOUT_MS after it was
\* sent (twice that over https, where the handshake never completes), with
\* the candidate rejected (null); with verification disabled (skipTrace) it
\* settles with the candidate accepted, every connect having succeeded.
C19_SilentServer ==
    /\ [](pbServer = "silent" /\ pbPhase = "settled" /\ ~skipTrace
            => pbOutcome = "null" /\ pbTimer = "fired"
               /\ pbTraceMs >= TRACE_TIMEOUT_MS
               /\ pbTraceMs <= 2 * TRACE_TIMEOUT_MS
               /\ pbRecv = PingTimes)
    /\ [](pbServer = "silent" /\ pbPhase = "settled" /\ skipTrace
            => pbOutcome = "accepted" /\ pbRecord.received = PingTimes
               /\ pbReq = "none")
    /\ (pbServer = "silent" ~> pbPhase = "settled")

\* the trace request to the silent server was sent and timed out
C19_Witness ==
    /\ pbServer = "silent" /\ ~skipTrace /\ pbPhase = "settled"
    /\ traceUrl.protocol = "https:" /\ pbTraceMs = 2 * TRACE_TIMEOUT_MS
    /\ pbTimer = "fired" /\ pbReq = "destroyed" /\ pbOutcome = "null"

\* C20: tcping always resolves: with ok = true on connect, with ok = false
\* on a connection error and on the connect timeout; where nobody listens
\* every attempt resolves with ok = false; no attempt stays pending.
C20_TcpingAlwaysResolves ==
    /\ [](\A k \in 1..Len(pbPings) :
            /\ pbPings[k].ok = (pbPings[k].event = "connect")
            /\ pbServer = "closed" => ~pbPings[k].ok)
    /\ (pbPhase = "tcping" ~> pbPhase # "tcping")
    /\ (pbServer = "closed" ~> (pbPhase = "settled" /\ pbOutcome = "null"
                                  /\ Len(pbPings) = PingTimes))

\* every attempt at the closed port has resolved with ok = false
C20_Witness ==
    /\ pbServer = "closed" /\ Len(pbPings) = PingTimes
    /\ \A k \in 1..Len(pbPings) : pbPings[k].event = "error" /\ ~pbPings[k].ok
    /\ pbPhase = "settled"


\* C30: the completed count is advanced for a candidate only once the
\* candidate has reached a terminal state (unreachable, rejected or
\* accepted): the count never exceeds the number of candidates whose
\* runOne has settled.
C30_CountedWhenTerminal ==
    pbGrown <= (IF pbPhase = "settled" THEN 1 ELSE 0)

\* ---- the order of the stages ---------------------------------------------

\* The stages a candidate goes through: dial and verification inside one
\* call of runOne (the first pass of main is made of such calls, which
\* MainAfterPing takes by their outcome), then ranking, the speed stage and
\* proxy validation in main.
StagesInit == ProbeInit \/ MainInit

StagesNext == ProbeNext \/ MainNext

SpecStages == StagesInit /\ [][StagesNext]_vars

\* C29: the stages run strictly in sequence.  The verification request of
\* a candidate exists only when all its dials are over and one succeeded
\* (an unreachable candidate is never verified), and proxy validation has
\* started only when the first pass over all candidates, the ranking and
\* the speed stage have finished.
C29_StagesInSequence ==
    /\ pbReq # "none" => ~skipTrace /\ pbI = PingTimes /\ pbRecv > 0
    /\ pbPhase = "settled" /\ pbRecv = 0 => pbReq = "none" /\ pbOutcome = "null"
    /\ xrState \in {"running", "resolved", "rejected", "pending"}
         \/ xrSpawned > 0 =>
         /\ mnState \in {"xray", "update", "exited"}
         /\ mnPinged = Len(mnIps) * PingTimes /\ Len(mnEnv) = Len(mnIps)
         /\ \E order \in CompletionOrders(Len(mnIps)) :
              mnSorted = sortByDelayAndLoss(runPing(mnIps, mnEnv, order))
         /\ spState = "returned"

\* A proxy was started for a candidate that went through the first pass,
\* the ranking and the speed stage.
C29_Witness ==
    /\ mnState = "xray" /\ xrSpawned > 0
    /\ mnSorted # <<>> /\ spState = "returned"

\* ========================================================================
\* CONNECTIVITY PROBE OF ONE SAMPLED ADDRESS (checkProbe / runRequest of the
\* range prober; in trace mode the same code as checkCloudflareTrace of
\* probe.ts)
\* ========================================================================
\* One call of checkProbe(ip, probe), event by event.  The response is a
\* sequence of tokens: "P" stands for the text HTTP/d.d, "S" for a white
\* space character, "0".."9" for a digit, "colo=" and "ip=" for the trace
\* markers and "x" for any other text.

TIMEOUT_MS == 5000
\* time that passes before a network event (connect, handshake, chunk)
EventMs == 40

DigitVal == ("0" :> 0) @@ ("2" :> 2) @@ ("3" :> 3) @@ ("4" :> 4) @@
            ("6" :> 6) @@ ("9" :> 9)

\* What the server has to say once the request is written
ProbeResponses ==
    { <<"P", "S", "2", "0", "0", "S", "x">>,
      <<"P", "S", "2", "0", "0", "S", "colo=", "ip=">>,
      <<"P", "S", "S", "4", "0", "3", "S", "x">>,
      <<"P", "S", "0", "9", "9">>,
      <<"P", "S", "6", "0", "0">>,
      <<"x", "P", "2", "0", "0">>,
      <<>> }

\* data.buf.match(/HTTP\/\d\.\d\s+(\d{3})/): the places <<i, j>> where the
\* text matches, i the position of HTTP/d.d and j the last white space
StatusMatches(buf) ==
    {m \in (1..Len(buf)) \X (1..Len(buf)) :
        /\ buf[m[1]] = "P"
        /\ m[2] > m[1] /\ m[2] + 3 <= Len(buf)
        /\ \A k \in (m[1] + 1)..m[2] : buf[k] = "S"
        /\ \A k \in (m[2] + 1)..(m[2] + 3) : buf[k] \in DOMAIN DigitVal}

\* parseInt(match[1], 10) of the leftmost match, -1 when nothing matches
StatusCode(buf) ==
    IF StatusMatches(buf) = {} THEN -1
    ELSE LET m == CHOOSE a \in StatusMatches(buf) :
                      \A b \in StatusMatches(buf) : a[1] <= b[1]
         IN  100 * DigitVal[buf[m[2] + 1]] + 10 * DigitVal[buf[m[2] + 2]]
             + DigitVal[buf[m[2] + 3]]

\* code >= 100 && code < 600
AcceptsCode2xx(code) == code >= 200 /\ code < 300
AcceptsCode(code) == code >= 100 /\ code < 600

\* data.buf.includes("colo=") && data.buf.includes("ip=")
HasTraceMarkers(buf) ==
    /\ \E k \in 1..Len(buf) : buf[k] = "colo="
    /\ \E k \in 1..Len(buf) : buf[k] = "ip="

\* The data listener: "pending" while the buffer does not decide, else the
\* value it calls done with (after clearTimeout and sock.destroy())
OnDataAtEndOnly(trace, buf) == "pending"
OnData(trace, buf) ==
    IF trace
    THEN IF HasTraceMarkers(buf) THEN "true" ELSE "pending"
    ELSE IF StatusCode(buf) = -1 THEN "pending"
         ELSE IF AcceptsCode(StatusCode(buf)) THEN "true" ELSE "false"

\* The end listener: the value it calls done with
OnEnd(trace, buf) ==
    IF trace THEN HasTraceMarkers(buf)
    ELSE StatusCode(buf) # -1 /\ AcceptsCode(StatusCode(buf))

\* The probe URLs: an optional scheme, a host, an optional port, a path
ProbeUrls ==
    [prefix : {"", "http://", "https://"},
     host : {"www.cloudflare.com", "example.com"},
     port : {"", "443", "8443"},
     path : {"/cdn-cgi/trace", "/"}]

PortVal == ("80" :> 80) @@ ("443" :> 443) @@ ("8443" :> 8443)

\* the scheme of the URL that new URL() is given: https unless http:// or
\* https:// is written
UrlProtocol(url) == IF url.prefix = "http://" THEN "http:" ELSE "https:"

\* u.port: empty when no port is written or the port written is the
\* default port of the scheme
UrlPort(url) ==
    IF url.port = "" THEN ""
    ELSE IF PortVal[url.port] =
              (IF UrlProtocol(url) = "https:" THEN 443 ELSE 80) THEN ""
    ELSE url.port

parseProbeUrl(url) ==
    [host |-> url.host,
     path |-> url.path,
     port |-> IF UrlPort(url) # "" THEN PortVal[UrlPort(url)]
              ELSE IF UrlProtocol(url) = "https:" THEN 443 ELSE 80,
     isTraceEndpoint |-> url.host = "www.cloudflare.com"
                           /\ url.path = "/cdn-cgi/trace"]

\* if (probe.port === 443) tls.connect(...) else runRequest(socket)
UpgradesToTls(url) == parseProbeUrl(url).port = 443

HttpProbeInit ==
    /\ hpUrl \in ProbeUrls
    /\ hpSni = ""
    /\ hpTrace = parseProbeUrl(hpUrl).isTraceEndpoint
    /\ hpTls = UpgradesToTls(hpUrl)
    /\ hpResp \in ProbeResponses
    /\ hpCut \in 0..Len(hpResp)
    /\ hpPhase = "connecting"
    /\ hpWire = <<>> /\ hpBuf = <<>>
    /\ hpSock = "connecting"
    /\ hpTimer = "armed"
    /\ hpClock = 0 /\ hpActive = 0
    /\ hpResolved = FALSE /\ hpOk = FALSE /\ hpLatencyMs = 0
    /\ hpCause = "none"
    /\ PoolIdle /\ MatchIdle /\ StreamIdle /\ XrayIdle /\ SpeedIdle /\ MainIdle
    /\ TunnelIdle /\ ProbeIdle /\ RangesIdle /\ ConfigIdle /\ RandomIpsIdle
    /\ LoadIdle

\* done(ok) without the resolved flag: every call would deliver an outcome
HpDoneUnguarded(ok, cause, now) ==
    /\ hpResolved' = TRUE
    /\ hpOk' = ok
    /\ hpLatencyMs' = now
    /\ hpCause' = cause

\* done(ok) at time now: the first call resolves with
\* { ok, latencyMs: Date.now() - start }, later calls do nothing
HpDone(ok, cause, now) ==
    IF hpResolved
    THEN UNCHANGED <<hpResolved, hpOk, hpLatencyMs, hpCause>>
    ELSE /\ hpResolved' = TRUE
         /\ hpOk' = ok
         /\ hpLatencyMs' = now
         /\ hpCause' = cause

\* runRequest: the request is written, the listeners are installed
HpRunRequest ==
    /\ hpPhase' = "request"
    /\ hpWire' = SubSeq(hpResp, 1, hpCut)

\* the connect callback of net.connect
HpConnect ==
    /\ hpPhase = "connecting" /\ hpSock = "connecting"
    /\ hpSock' = "open"
    /\ hpClock' = hpClock + EventMs /\ hpActive' = hpClock'
    /\ IF hpTls
       THEN /\ hpPhase' = "tls" /\ hpSni' = parseProbeUrl(hpUrl).host
            /\ UNCHANGED hpWire
       ELSE HpRunRequest /\ UNCHANGED hpSni
    /\ UNCHANGED <<hpUrl, hpTrace, hpTls, hpResp, hpCut, hpBuf, hpTimer, hpResolved,
                   hpOk, hpLatencyMs, hpCause>>
    /\ UNCHANGED <<poolVars, matchVars, streamVars, xrVars, spVars, mnVars,
                   tnVars, pbVars, rgVars, cfVars, grVars, ldVars>>

\* the callback of tls.connect: the handshake is over
HpSecure ==
    /\ hpPhase = "tls" /\ hpSock = "open"
    /\ hpClock' = hpClock + EventMs /\ hpActive' = hpClock'
    /\ HpRunRequest
    /\ UNCHANGED <<hpUrl, hpSni, hpTrace, hpTls, hpResp, hpCut, hpBuf, hpSock, hpTimer,
                   hpResolved, hpOk, hpLatencyMs, hpCause>>
    /\ UNCHANGED <<poolVars, matchVars, streamVars, xrVars, spVars, mnVars,
                   tnVars, pbVars, rgVars, cfVars, grVars, ldVars>>

\* sock.on("data", ...)
HpData ==
    /\ hpPhase = "request" /\ hpSock = "open"
    /\ \E k \in 1..Len(hpWire) :
         LET buf == hpBuf \o SubSeq(hpWire, 1, k)
             now == hpClock + EventMs
             verdict == OnData(hpTrace, buf)
         IN  /\ hpBuf' = buf
             /\ hpWire' = SubSeq(hpWire, k + 1, Len(hpWire))
             /\ hpClock' = now /\ hpActive' = now
             /\ IF verdict = "pending"
                THEN UNCHANGED <<hpTimer, hpSock, hpResolved, hpOk,
                                 hpLatencyMs, hpCause>>
                ELSE /\ hpTimer' = IF hpTimer = "armed" THEN "cleared"
                                   ELSE hpTimer
                     /\ hpSock' = "destroyed"
                     /\ HpDone(verdict = "true", "data", now)
    /\ UNCHANGED <<hpUrl, hpSni, hpTrace, hpTls, hpResp, hpCut, hpPhase>>
    /\ UNCHANGED <<poolVars, matchVars, streamVars, xrVars, spVars, mnVars,
                   tnVars, pbVars, rgVars, cfVars, grVars, ldVars>>

\* sock.on("end", ...): the server has closed after what it sent
HpEnd ==
    /\ hpPhase = "request" /\ hpSock = "open" /\ hpWire = <<>>
    /\ hpSock' = "ended"
    /\ hpClock' = hpClock + EventMs /\ hpActive' = hpClock'
    /\ hpTimer' = IF hpTimer = "armed" THEN "cleared" ELSE hpTimer
    /\ HpDone(OnEnd(hpTrace, hpBuf), "end", hpClock')
    /\ UNCHANGED <<hpUrl, hpSni, hpTrace, hpTls, hpResp, hpCut, hpPhase, hpWire, hpBuf>>
    /\ UNCHANGED <<poolVars, matchVars, streamVars, xrVars, spVars, mnVars,
                   tnVars, pbVars, rgVars, cfVars, grVars, ldVars>>

\* the error listeners of the socket and of the TLS socket: a refused or
\* reset connection, a failed handshake
HpError ==
    /\ hpSock \in {"connecting", "open"}
    /\ hpSock' = "destroyed"
    /\ hpClock' = hpClock + EventMs /\ hpActive' = hpClock'
    /\ hpTimer' = IF hpTimer = "armed" THEN "cleared" ELSE hpTimer
    /\ HpDone(FALSE, "error", hpClock')
    /\ UNCHANGED <<hpUrl, hpSni, hpTrace, hpTls, hpResp, hpCut, hpPhase, hpWire, hpBuf>>
    /\ UNCHANGED <<poolVars, matchVars, streamVars, xrVars, spVars, mnVars,
                   tnVars, pbVars, rgVars, cfVars, grVars, ldVars>>

\* setTimeout(() => done(false), TIMEOUT_MS): the socket is left as it is
HpTimer ==
    /\ hpTimer = "armed"
    /\ hpTimer' = "fired"
    /\ hpClock' = TIMEOUT_MS
    /\ HpDone(FALSE, "timeout", TIMEOUT_MS)
    /\ UNCHANGED <<hpUrl, hpSni, hpTrace, hpTls, hpResp, hpCut, hpPhase, hpWire, hpBuf,
                   hpSock, hpActive>>
    /\ UNCHANGED <<poolVars, matchVars, streamVars, xrVars, spVars, mnVars,
                   tnVars, pbVars, rgVars, cfVars, grVars, ldVars>>

\* socket.setTimeout(TIMEOUT_MS, ...): the socket was idle for TIMEOUT_MS.
\* The timer of setTimeout was started first, so this one runs after it
\* unless nothing at all has happened on the socket.
HpIdle ==
    /\ hpSock \in {"connecting", "open"}
    /\ hpTimer = "fired" \/ (hpTimer = "armed" /\ hpActive = 0)
    /\ hpSock' = "destroyed"
    /\ hpClock' = hpActive + TIMEOUT_MS
    /\ hpTimer' = IF hpTimer = "armed" THEN "cleared" ELSE hpTimer
    /\ HpDone(FALSE, "timeout", hpActive + TIMEOUT_MS)
    /\ UNCHANGED <<hpUrl, hpSni, hpTrace, hpTls, hpResp, hpCut, hpPhase, hpWire, hpBuf,
                   hpActive>>
    /\ UNCHANGED <<poolVars, matchVars, streamVars, xrVars, spVars, mnVars,
                   tnVars, pbVars, rgVars, cfVars, grVars, ldVars>>

HttpProbeNext ==
    \/ HpConnect
    \/ HpSecure
    \/ HpData
    \/ HpEnd
    \/ HpError
    \/ HpTimer
    \/ HpIdle

SpecHttpProbe == HttpProbeInit /\ [][HttpProbeNext]_vars

\* ---- claims about the connectivity probe --------------------------------

\* C21: every probe that ends in a connection error or a timeout reports
\* reachable = false together with a latency of exactly 0 milliseconds.
C21_FailureLatencyZero ==
    hpResolved /\ hpCause \in {"error", "timeout"}
        => ~hpOk /\ hpLatencyMs = 0

\* C22: in generic mode the probe succeeds only if the bytes received hold a
\* status line with a code in 100..599, and as soon as the bytes received
\* hold a status line the probe has decided (success exactly for a code in
\* 100..599) and has closed the connection, whatever the server still has
\* to send; a probe that had timed out before stays failed.
C22_GenericStatusLine ==
    ~hpTrace =>
        /\ hpResolved /\ hpOk
             => StatusCode(hpBuf) >= 100 /\ StatusCode(hpBuf) <= 599
        /\ StatusCode(hpBuf) # -1
             => /\ hpResolved /\ hpSock = "destroyed"
                /\ hpCause # "timeout"
                     => (hpOk <=> StatusCode(hpBuf) \in 100..599)

\* a 200 was decided on while the rest of the response was still to come
C22_Witness ==
    /\ ~hpTrace /\ hpResolved /\ hpOk /\ hpCause = "data"
    /\ StatusCode(hpBuf) = 200 /\ hpWire # <<>> /\ hpSock = "destroyed"

\* C23 as stated: with a probe URL other than the trace endpoint a sampled
\* address counts as a success only when the status is 2xx.
C23_SuccessOnly2xx ==
    ~hpTrace /\ hpResolved /\ hpOk
        => StatusCode(hpBuf) >= 200 /\ StatusCode(hpBuf) <= 299

\* C23 amended: with a probe URL other than the trace endpoint a sampled
\* address counts as a success only when a status line was received and its
\* code is at least 100 and below 600, and every such code decided on by
\* the data or the end listener, 403 included, is a success.
C23_SuccessAnyStatus ==
    ~hpTrace /\ hpResolved =>
        /\ hpOk => StatusCode(hpBuf) >= 100 /\ StatusCode(hpBuf) < 600
        /\ hpCause \in {"data", "end"} /\ StatusCode(hpBuf) >= 100
             /\ StatusCode(hpBuf) < 600 => hpOk

\* a 403 counted as a success
C23_Witness ==
    ~hpTrace /\ hpResolved /\ hpOk /\ StatusCode(hpBuf) = 403


\* ========================================================================
\* RANGE PROBING: probeRanges / probeRange (probe.ts) and the large-file
\* scanAllSubnets / scanSubnet (scan-subnets.ts)
\* ========================================================================

\* probe.ts
PROBE_CONCURRENCY == 10
ProbeMinRateNum == 3       \* MIN_SUCCESS_RATE = 0.6 = 3/5
ProbeMinRateDen == 5
PROBE_MAX_AVG_LATENCY == 2000

MaxCidrs == 3       \* longest list of entries handed to the range prober

\* An entry is the sequence of its characters; "A" stands for the text of a
\* /24 range, "B" for the text of a /32 range, "X" for text that is no CIDR.
BlankEntry == <<" ">>
CommentEntry == <<" ", "#", "A">>
PaddedRange == <<" ", "A">>
SingleAddress == <<"B">>
NotACidr == <<"X">>

\* What the callers hand over: probeRanges gets the raw lines, while
\* scanAllSubnets gets the subnets main has already parsed.
RangeEntries(mode) ==
    IF mode = "standard"
    THEN {BlankEntry, CommentEntry, PaddedRange, SingleAddress, NotACidr}
    ELSE {<<"A">>, SingleAddress}

RECURSIVE TrimStart(_)
TrimStart(c) == IF c # <<>> /\ Head(c) = " " THEN TrimStart(Tail(c)) ELSE c

RECURSIVE TrimEnd(_)
TrimEnd(c) ==
    IF c # <<>> /\ c[Len(c)] = " " THEN TrimEnd(SubSeq(c, 1, Len(c) - 1)) ELSE c

\* c.trim()
trim(c) == TrimEnd(TrimStart(c))

\* cidrs.filter((c) => { const t = c.trim(); return t && !t.startsWith("#") })
IsValidEntry(c) == LET t == trim(c) IN t # <<>> /\ Head(t) # "#"

\* One settled sample: checkCloudflareTrace resolves with the elapsed time
\* whether or not the address answered.
SampleFailed == [ok |-> FALSE, latencyMs |-> 3990]
SampleOk(ms) == [ok |-> TRUE, latencyMs |-> ms]

\* What the sampled addresses of a range can answer.  getRandomIps yields
\* no address for text that is no CIDR, one for a /32, and up to `count`
\* (5 in probe.ts, 3 in scan-subnets.ts) for a /24: a repeated random
\* offset is skipped.
RangeAnswers(mode, c) ==
    CASE trim(c) = <<"X">> -> {<<>>}
      [] trim(c) = <<"B">> -> {<<SampleFailed>>, <<SampleOk(100)>>, <<SampleOk(3900)>>}
      [] mode = "standard" ->
           {<<SampleFailed, SampleFailed, SampleFailed, SampleFailed, SampleFailed>>,
            <<SampleOk(100), SampleFailed, SampleOk(100), SampleFailed>>,
            <<SampleOk(100), SampleOk(100), SampleFailed, SampleOk(100), SampleFailed>>,
            <<SampleOk(3900), SampleFailed, SampleOk(100), SampleOk(2000), SampleFailed>>,
            <<SampleOk(3900), SampleOk(3900), SampleFailed, SampleOk(100), SampleFailed>>}
      [] OTHER ->
           {<<SampleFailed, SampleFailed, SampleFailed>>,
            <<SampleOk(100), SampleFailed, SampleFailed>>,
            <<SampleFailed, SampleOk(100)>>,
            <<SampleOk(2100), SampleFailed, SampleOk(3900)>>,
            <<SampleOk(3900), SampleOk(3900), SampleOk(3900)>>}

\* probeRange after Promise.all: the RangeResult of one range from its
\* settled samples rs.  successRate and avgLatency are kept as fractions.
probeRangeOverAllSamples(cidr, rs) ==
    LET successes == Cardinality({k \in 1..Len(rs) : rs[k].ok})
        latSum == SumLatency(rs, Len(rs))
    IN  IF Len(rs) = 0 \/ successes = 0
        THEN [cidr |-> cidr, rateNum |-> 0, rateDen |-> 1,
              latSum |-> 0, latDen |-> 1, passed |-> FALSE]
        ELSE [cidr |-> cidr, rateNum |-> successes, rateDen |-> Len(rs),
              latSum |-> latSum, latDen |-> Len(rs),
              passed |-> /\ successes * ProbeMinRateDen >= ProbeMinRateNum * Len(rs)
                         /\ latSum <= PROBE_MAX_AVG_LATENCY * Len(rs)]
probeRange(cidr, rs) ==
    LET successes == Cardinality({k \in 1..Len(rs) : rs[k].ok})
        latSum == SumLatency(rs, Len(rs))
    IN  IF Len(rs) = 0 \/ successes = 0
        THEN [cidr |-> cidr, rateNum |-> 0, rateDen |-> 1,
              latSum |-> 0, latDen |-> 1, passed |-> FALSE]
        ELSE [cidr |-> cidr, rateNum |-> successes, rateDen |-> Len(rs),
              latSum |-> latSum, latDen |-> successes,
              passed |-> /\ successes * ProbeMinRateDen >= ProbeMinRateNum * Len(rs)
                         /\ latSum <= PROBE_MAX_AVG_LATENCY * successes]

\* (a, b) => a.avgLatency - b.avgLatency is negative: a sorts before b.
AvgLatencyBefore(a, b) == a.latSum * b.latDen < b.latSum * a.latDen

RECURSIVE InsertByAvgLatency(_, _)
InsertByAvgLatency(sorted, r) ==
    IF sorted = <<>> THEN <<r>>
    ELSE IF AvgLatencyBefore(r, sorted[Len(sorted)])
         THEN Append(InsertByAvgLatency(SubSeq(sorted, 1, Len(sorted) - 1), r),
                     sorted[Len(sorted)])
         ELSE Append(sorted, r)

\* results.sort((a, b) => a.avgLatency - b.avgLatency): a stable sort
RECURSIVE SortByAvgLatency(_)
SortByAvgLatency(rs) ==
    IF rs = <<>> THEN <<>>
    ELSE InsertByAvgLatency(SortByAvgLatency(SubSeq(rs, 1, Len(rs) - 1)),
                            rs[Len(rs)])

\* results.filter((r) => r.passed).sort(...).map((r) => r.cidr)
PassedInCompletionOrder(rs) ==
    LET Passed(r) == r.passed
        kept == Filter(rs, Passed)
    IN  [k \in 1..Len(kept) |-> kept[k].cidr]
PassedByLatency(rs) ==
    LET Passed(r) == r.passed
        kept == SortByAvgLatency(Filter(rs, Passed))
    IN  [k \in 1..Len(kept) |-> kept[k].cidr]

RangesInit ==
    /\ rgMode \in {"standard", "largeFile"}
    /\ \E n \in 0..MaxCidrs : rgCidrs \in [1..n -> RangeEntries(rgMode)]
    /\ rgValid = <<>>
    /\ rgIndex = 0
    /\ rgDone = 0
    /\ rgResults = <<>>
    /\ rgCur = <<>>
    /\ rgAnswers = <<>>
    /\ rgOrder = <<>>
    /\ rgPhase = "init"
    /\ rgOut = <<>>
    /\ rgFile = <<>>
    /\ PoolIdle /\ MatchIdle /\ StreamIdle /\ XrayIdle /\ SpeedIdle /\ MainIdle
    /\ TunnelIdle /\ ProbeIdle /\ HttpProbeIdle /\ ConfigIdle /\ RandomIpsIdle
    /\ LoadIdle

\* probeRanges / scanAllSubnets up to `await Promise.all(...)`: every worker
\* runs to its first await, claiming the next position, or returns at once.
RgStart ==
    /\ rgPhase = "init"
    /\ LET valid == IF rgMode = "standard" THEN Filter(rgCidrs, IsValidEntry)
                    ELSE rgCidrs
           c == IF rgMode = "standard" THEN PROBE_CONCURRENCY ELSE CONCURRENCY
       IN  /\ rgValid' = valid
           /\ rgCur' = [w \in 1..c |-> IF w <= Len(valid) THEN w ELSE 0]
           /\ rgIndex' = Min(c, Len(valid))
           /\ rgAnswers' = [k \in 1..Len(valid) |-> <<>>]
    /\ rgPhase' = "running"
    /\ UNCHANGED <<rgMode, rgCidrs, rgDone, rgResults, rgOrder, rgOut, rgFile>>
    /\ UNCHANGED <<poolVars, matchVars, streamVars, xrVars, spVars, mnVars,
                   tnVars, pbVars, hpVars, cfVars, grVars, ldVars>>

\* if (result.passed) onClean?.(result): the callback main passes when it
\* saves the subnets as found appends result.cidr to both files
OnClean(mode, file, result) ==
    IF mode = "savedAsFound" /\ result.passed THEN Append(file, result.cidr)
    ELSE file

\* A worker resumes after `await probeRange(cidr)` / `await scanSubnet(cidr)`:
\* it records the result, counts it, and goes round its loop.
RgComplete ==
    /\ rgPhase = "running"
    /\ \E w \in DOMAIN rgCur :
         /\ rgCur[w] # 0
         /\ \E rs \in RangeAnswers(rgMode, rgValid[rgCur[w]]) :
              LET result == IF rgMode = "standard"
                            THEN probeRange(rgValid[rgCur[w]], rs)
                            ELSE scanSubnet(rgValid[rgCur[w]], rs)
              IN  /\ rgResults' = Append(rgResults, result)
                  /\ rgFile' = OnClean(rgMode, rgFile, result)
                  /\ rgAnswers' = [rgAnswers EXCEPT ![rgCur[w]] = rs]
         /\ rgOrder' = Append(rgOrder, rgCur[w])
         /\ rgDone' = rgDone + 1
         /\ IF rgIndex < Len(rgValid)
            THEN /\ rgCur' = [rgCur EXCEPT ![w] = rgIndex + 1]
                 /\ rgIndex' = PostIncrement(rgIndex)
            ELSE /\ rgCur' = [rgCur EXCEPT ![w] = 0]
                 /\ UNCHANGED rgIndex
    /\ UNCHANGED <<rgMode, rgCidrs, rgValid, rgPhase, rgOut>>
    /\ UNCHANGED <<poolVars, matchVars, streamVars, xrVars, spVars, mnVars,
                   tnVars, pbVars, hpVars, cfVars, grVars, ldVars>>

\* `await Promise.all(...)` resolves once every worker has returned, and
\* the function returns: probeRanges the passed ranges by latency,
\* scanAllSubnets its results as collected.
RgReturn ==
    /\ rgPhase = "running"
    /\ \A w \in DOMAIN rgCur : rgCur[w] = 0
    /\ rgOut' = IF rgMode = "standard" THEN PassedByLatency(rgResults)
                ELSE rgResults
    /\ rgPhase' = "returned"
    /\ UNCHANGED <<rgMode, rgCidrs, rgValid, rgIndex, rgDone, rgResults, rgCur,
                   rgAnswers, rgOrder, rgFile>>
    /\ UNCHANGED <<poolVars, matchVars, streamVars, xrVars, spVars, mnVars,
                   tnVars, pbVars, hpVars, cfVars, grVars, ldVars>>

RangesNext == RgStart \/ RgComplete \/ RgReturn

SpecRanges == RangesInit /\ [][RangesNext]_vars


\* ---- main of the large-file scanner: scan-subnets.ts writes the two
\* files after the scan ("largeFile"), part_001 appends to them while
\* the scan runs ("savedAsFound")

\* [...new Set(cloudflareSubnets)]: the first occurrence of each subnet
RECURSIVE Unique(_)
Unique(list) ==
    IF list = <<>> THEN <<>>
    ELSE LET front == Unique(SubSeq(list, 1, Len(list) - 1))
             last == list[Len(list)]
         IN  IF \E k \in 1..Len(front) : front[k] = last THEN front
             ELSE Append(front, last)

LargeFileInit ==
    /\ rgMode \in {"largeFile", "savedAsFound"}
    /\ \E n \in 1..MaxCidrs :
         \E found \in [1..n -> RangeEntries("largeFile")] :
             rgCidrs = Unique(found)
    /\ rgValid = <<>>
    /\ rgIndex = 0
    /\ rgDone = 0
    /\ rgResults = <<>>
    /\ rgCur = <<>>
    /\ rgAnswers = <<>>
    /\ rgOrder = <<>>
    /\ rgPhase = "init"
    /\ rgOut = <<>>
    /\ rgFile = <<>>
    /\ PoolIdle /\ MatchIdle /\ StreamIdle /\ XrayIdle /\ SpeedIdle /\ MainIdle
    /\ TunnelIdle /\ ProbeIdle /\ HttpProbeIdle /\ ConfigIdle /\ RandomIpsIdle
    /\ LoadIdle

\* main after `await scanAllSubnets(...)`: cleanResults is the passed
\* results by latency.  scan-subnets.ts exits when there is none and writes
\* the files from cleanResults otherwise; part_001 empties the files when
\* there is none and otherwise rewrites the header only, the lines staying
\* as they were appended.
WriteCleanFiles ==
    /\ rgPhase = "returned" /\ rgMode # "standard"
    /\ LET clean == PassedByLatency(rgOut)
       IN  rgFile' = IF rgMode = "largeFile"
                     THEN (IF clean = <<>> THEN rgFile ELSE clean)
                     ELSE (IF clean = <<>> THEN <<>> ELSE rgFile)
    /\ rgPhase' = "written"
    /\ UNCHANGED <<rgMode, rgCidrs, rgValid, rgIndex, rgDone, rgResults, rgCur,
                   rgAnswers, rgOrder, rgOut>>
    /\ UNCHANGED <<poolVars, matchVars, streamVars, xrVars, spVars, mnVars,
                   tnVars, pbVars, hpVars, cfVars, grVars, ldVars>>

LargeFileNext == RgStart \/ RgComplete \/ RgReturn \/ WriteCleanFiles

SpecLargeFile == LargeFileInit /\ [][LargeFileNext]_vars


\* The samples rs meet a success rate of at least num/den and a mean
\* latency over the successful samples of at most maxAvg.
MeetsThresholds(rs, num, den, maxAvg) ==
    LET ok == {k \in 1..Len(rs) : rs[k].ok}
    IN  /\ Len(rs) > 0
        /\ ok # {}
        /\ Cardinality(ok) * den >= num * Len(rs)
        /\ SumLatency(rs, Len(rs)) <= maxAvg * Cardinality(ok)

\* C24: a probed range passes if and only if successful samples / samples
\* probed is at least the minimum rate and the mean latency over its
\* successful samples is at most the maximum (0.6 and 2000 ms in standard
\* mode, 0.5 and 3000 ms in large-file mode); a range with no sampled
\* address or no successful sample never passes.
C24_RangePassesIffThresholds ==
    \A k \in 1..Len(rgResults) :
        LET rs == rgAnswers[rgOrder[k]]
        IN  /\ rgResults[k].passed <=>
                 IF rgMode = "standard" THEN MeetsThresholds(rs, 3, 5, 2000)
                 ELSE MeetsThresholds(rs, 1, 2, 3000)
            /\ (rs = <<>> \/ \A j \in 1..Len(rs) : ~rs[j].ok) => ~rgResults[k].passed

\* A range passed in standard mode exactly on both thresholds, and a range
\* of the large-file mode passed with half of its samples.
C24_Witness ==
    \E k \in 1..Len(rgResults) :
        /\ rgResults[k].passed
        /\ \/ /\ rgMode = "standard"
              /\ rgResults[k].rateNum * 5 = 3 * rgResults[k].rateDen
              /\ rgResults[k].latSum = 2000 * rgResults[k].latDen
           \/ /\ rgMode = "largeFile"
              /\ 2 * rgResults[k].successes = Len(rgAnswers[rgOrder[k]])

\* The passed positions of `valid`, from what their samples answered.
PassedPositions ==
    {j \in 1..Len(rgValid) : MeetsThresholds(rgAnswers[j], 3, 5, 2000)}

\* The mean latency of position i is at most that of position j.
MeanLatencyAtMost(i, j) ==
    LET oki == Cardinality({k \in 1..Len(rgAnswers[i]) : rgAnswers[i][k].ok})
        okj == Cardinality({k \in 1..Len(rgAnswers[j]) : rgAnswers[j][k].ok})
    IN  SumLatency(rgAnswers[i], Len(rgAnswers[i])) * okj
            <= SumLatency(rgAnswers[j], Len(rgAnswers[j])) * oki

\* C25: probeRanges returns exactly the input ranges (blank and #-comment
\* entries removed) whose probe passed, each once per occurrence in the
\* input, in ascending order of average latency, whatever the order in
\* which the concurrent workers completed them.
C25_PassedRangesByLatency ==
    rgMode = "standard" /\ rgPhase = "returned" =>
        /\ rgValid = SelectSeq(rgCidrs, LAMBDA c : c \notin {BlankEntry, CommentEntry})
        /\ Len(rgOut) = Cardinality(PassedPositions)
        /\ \E f \in [1..Len(rgOut) -> PassedPositions] :
             /\ \A a, b \in 1..Len(rgOut) : a # b => f[a] # f[b]
             /\ \A k \in 1..Len(rgOut) : rgOut[k] = rgValid[f[k]]
             /\ \A k \in 1..(Len(rgOut) - 1) : MeanLatencyAtMost(f[k], f[k + 1])

\* probeRanges dropped an entry and returned two ranges in an order other
\* than the one their probes completed in.
C25_Witness ==
    /\ rgMode = "standard" /\ rgPhase = "returned"
    /\ Len(rgValid) < Len(rgCidrs)
    /\ Len(rgOut) >= 2
    /\ rgOut # PassedInCompletionOrder(rgResults)


\* ========================================================================
\* REWRITING THE PROXY TEMPLATE (applyAddressInConfig)
\* ========================================================================
\* The parsed JSON template, as far as applyAddressInConfig looks at it.
\* A scalar field is [t, v] with t its JSON type ("absent" when the key is
\* missing) and v its text; a list field is [kind, items] with kind
\* "array", "object" (a value that is no array) or "absent".

MaxOutbounds == 1     \* most entries of config.outbounds
MaxServers == 1       \* most entries of a vnext / servers array

Absent == [t |-> "absent", v |-> ""]
Str(s) == [t |-> "string", v |-> s]
Num(s) == [t |-> "number", v |-> s]

\* Values of an address key in a template
AddressFields == {Absent, Num("7"), Str("old.example"), Str("")}

\* Entries of a vnext / servers array: null, or an object with a port
ServerEntries ==
    {[kind |-> "null", address |-> Absent, port |-> Absent]}
      \cup [kind : {"object"}, address : AddressFields, port : {Num("443")}]

ServerLists ==
    {[kind |-> "absent", items |-> <<>>], [kind |-> "object", items |-> <<>>]}
      \cup [kind : {"array"},
            items : UNION {[1..n -> ServerEntries] : n \in 0..MaxServers}]

NoList == [kind |-> "absent", items |-> <<>>]

\* ob.settings: missing, a string, or an object
SettingsValues ==
    {[kind |-> k, address |-> Absent, vnext |-> NoList, servers |-> NoList] :
        k \in {"absent", "string"}}
      \cup [kind : {"object"}, address : AddressFields,
            vnext : ServerLists, servers : ServerLists]

\* Entries of config.outbounds: null, a string, or an object with a tag
Outbounds ==
    {[kind |-> k, tag |-> "", settings |-> CHOOSE s \in SettingsValues :
                                             s.kind = "absent"] :
        k \in {"null", "string"}}
      \cup [kind : {"object"}, tag : {"proxy"}, settings : SettingsValues]

\* The outbounds without server lists, as "direct" and "block" are
PlainOutbounds ==
    {o \in Outbounds : o.settings.vnext = NoList /\ o.settings.servers = NoList}

\* The arrays of outbounds: none, or any outbound followed by plain ones
OutboundArrays ==
    {<<>>} \cup
    {<<o>> \o rest : o \in Outbounds,
                     rest \in UNION {[1..n -> PlainOutbounds] :
                                        n \in 0..(MaxOutbounds - 1)}}

\* Templates: outbounds missing, no array, or an array
Templates ==
    [inbounds : {"socks:1080"}, kind : {"absent", "object"}, outbounds : {<<>>}]
      \cup [inbounds : {"socks:1080"}, kind : {"array"},
            outbounds : OutboundArrays]

\* if (typeof x.address === "string") x.address = ip
SetAddressAnyType(x, ip) == [x EXCEPT !.address = Str(ip)]
SetAddress(x, ip) ==
    IF x.address.t = "string" THEN [x EXCEPT !.address = Str(ip)] ELSE x

\* if (Array.isArray(list)) list.forEach((v) => { if (v && typeof v ===
\* "object" && typeof v.address === "string") v.address = ip })
SetAddresses(list, ip) ==
    IF list.kind # "array" THEN list
    ELSE [list EXCEPT !.items =
            [k \in 1..Len(list.items) |->
                IF list.items[k].kind = "object"
                THEN SetAddress(list.items[k], ip) ELSE list.items[k]]]

\* the body of outbounds.forEach((ob) => ...)
ApplyToOutbound(ob, ip) ==
    IF ob.kind # "object" THEN ob
    ELSE IF ob.settings.kind # "object" THEN ob
    ELSE [ob EXCEPT !.settings =
            SetAddress([ob.settings EXCEPT
                           !.vnext = SetAddresses(ob.settings.vnext, ip),
                           !.servers = SetAddresses(ob.settings.servers, ip)],
                       ip)]

applyAddressInConfig(config, ip) ==
    IF config.kind # "array" THEN config
    ELSE [config EXCEPT !.outbounds =
            [k \in 1..Len(config.outbounds) |->
                ApplyToOutbound(config.outbounds[k], ip)]]

ConfigInit ==
    /\ cfConfig \in Templates
    /\ cfIp \in {"203.0.113.7"}
    /\ cfResult = <<>>
    /\ cfState = "init"
    /\ PoolIdle /\ MatchIdle /\ StreamIdle /\ XrayIdle /\ SpeedIdle /\ MainIdle
    /\ TunnelIdle /\ ProbeIdle /\ HttpProbeIdle /\ RangesIdle /\ RandomIpsIdle
    /\ LoadIdle

\* runXrayForIp: applyAddressInConfig(template, ip)
ApplyAddress ==
    /\ cfState = "init"
    /\ cfResult' = applyAddressInConfig(cfConfig, cfIp)
    /\ cfState' = "applied"
    /\ UNCHANGED <<cfConfig, cfIp>>
    /\ UNCHANGED <<poolVars, matchVars, streamVars, xrVars, spVars, mnVars,
                   tnVars, pbVars, hpVars, rgVars, grVars, ldVars>>

ConfigNext == ApplyAddress

SpecConfig == ConfigInit /\ [][ConfigNext]_vars

\* ---- claims about the template -------------------------------------------

\* The address of y is the candidate where that of x was a string, and is
\* that of x elsewhere.
AddressRewritten(x, y) ==
    y.address = IF x.address.t = "string" THEN Str(cfIp) ELSE x.address

\* The list y is the list x with the string addresses of its objects
\* rewritten and nothing else changed.
ListRewritten(x, y) ==
    /\ y.kind = x.kind /\ Len(y.items) = Len(x.items)
    /\ \A k \in 1..Len(x.items) :
         /\ y.items[k].kind = x.items[k].kind
         /\ y.items[k].port = x.items[k].port
         /\ AddressRewritten(x.items[k], y.items[k])

\* C33: applyAddressInConfig sets to the candidate exactly the
\* string-valued address fields of the outbounds (settings.address,
\* settings.vnext[*].address, settings.servers[*].address) and leaves every
\* other part of the configuration as it was: the inbounds, the ports, and
\* the address fields that are absent or no string.
C33_OnlyOutboundAddresses ==
    cfState = "applied" =>
        /\ cfResult.inbounds = cfConfig.inbounds
        /\ cfResult.kind = cfConfig.kind
        /\ Len(cfResult.outbounds) = Len(cfConfig.outbounds)
        /\ \A k \in 1..Len(cfConfig.outbounds) :
             LET x == cfConfig.outbounds[k]
                 y == cfResult.outbounds[k]
             IN  /\ y.kind = x.kind /\ y.tag = x.tag
                 /\ y.settings.kind = x.settings.kind
                 /\ AddressRewritten(x.settings, y.settings)
                 /\ ListRewritten(x.settings.vnext, y.settings.vnext)
                 /\ ListRewritten(x.settings.servers, y.settings.servers)

\* A template was rewritten whose outbound has a string address in vnext
\* and a numeric one in servers.
C33_Witness ==
    /\ cfState = "applied"
    /\ \E k \in 1..Len(cfConfig.outbounds) :
         LET x == cfConfig.outbounds[k].settings
             y == cfResult.outbounds[k].settings
         IN  /\ x.kind = "object"
             /\ x.vnext.kind = "array" /\ Len(x.vnext.items) > 0
             /\ x.vnext.items[1].address = Str("old.example")
             /\ y.vnext.items[1].address = Str(cfIp)
             /\ x.servers.kind = "array" /\ Len(x.servers.items) > 0
             /\ y.servers.items[1].address = Num("7")


\* ---- more claims about the connectivity probe ---------------------------

\* C34: whenever a trace / URL probe has resolved -- on the marker or the
\* status line, at the end of the stream, on a socket or TLS error, on the
\* idle timeout or on the hard timer -- the socket it opened has been
\* destroyed (or, at the end of the stream, has been closed by the peer and
\* is torn down by the runtime).
C34_SocketDestroyedOnResolve ==
    hpResolved => hpSock \in {"destroyed", "ended"}


\* C38: a trace / URL probe delivers exactly one outcome: once it has
\* resolved, no later event (data, end of stream, error, idle timeout, hard
\* timer) changes ok or latencyMs, so a response that arrives after the
\* hard timer cannot turn the failure into a success.
C38_OneOutcome ==
    [][hpResolved => /\ hpResolved'
                     /\ hpOk' = hpOk
                     /\ hpLatencyMs' = hpLatencyMs]_vars

\* the hard timer has failed the probe and the response that came after it
\* holds what would have made it a success
C38_Witness ==
    /\ hpResolved /\ ~hpOk /\ hpCause = "timeout" /\ hpTimer = "fired"
    /\ hpLatencyMs = TIMEOUT_MS
    /\ hpSock = "destroyed"
    /\ IF hpTrace THEN HasTraceMarkers(hpBuf) ELSE StatusCode(hpBuf) = 200


\* C35: checkProbe performs a TLS handshake, with the host name of the
\* probe URL as the server name (never the address dialed), exactly when
\* the scheme of the probe URL is https, whatever the port; an http URL is
\* requested in clear.
C35_TlsIffHttps ==
    hpPhase \in {"tls", "request"} =>
        /\ hpSni # "" <=> UrlProtocol(hpUrl) = "https:"
        /\ hpSni \in {"", hpUrl.host}



\* ========================================================================
\* STREAMING FILTER OF THE LARGE-FILE MODE, OVERLAP VARIANT (part_001:
\* extractCidr, overlapsCloudflare, isCatchAllSubnet)
\* ========================================================================
\* A line of the input file as this variant reads it: the CIDR may be
\* preceded by a label such as "L1:" (tried on the lines with prefix /0).
LabelledLines ==
    [kind : {"blank", "comment"}, label : {FALSE}, cidr : {BadCidr}]
      \cup [kind : {"cidr"}, label : {FALSE}, cidr : Candidates]
      \cup [kind : {"cidr"}, label : {TRUE},
            cidr : {c \in V4Cidrs : c.prefix = 0}]

\* The reference lists the matcher is built from
OverlapRefLists == {<<>>} \cup {<<c>> : c \in RefEntries}

\* extractCidr(trimmed) || trimmed: the first d.d.d.d/p of the line, which
\* leaves the label out; a line without one is taken as it is
extractCidr(line) == line.cidr

\* trimmed === "0.0.0.0/0" || trimmed === "::/0": a comparison of the text
isCatchAllSubnet(c) ==
    /\ c.fam \in {"v4", "v6"}
    /\ c.addr = ZeroAddr
    /\ c.prefix = 0

\* matcher.overlapsCloudflare(cidr) && !isCatchAllSubnet(cidr)
KeepOverlapping(rs, c) ==
    overlapsCloudflare(rs, c).value /\ ~isCatchAllSubnet(c)

OverlapFilterInit ==
    /\ cloudflareRanges \in OverlapRefLists
    /\ ranges = CloudflareRangeMatcher(cloudflareRanges)
    /\ target = <<>>
    /\ lastOp = "none"
    /\ answer = NoAnswer
    /\ fileLines = <<>>
    /\ cloudflareSubnets = <<>>
    /\ processed = 0
    /\ streamState = "open"
    /\ PoolIdle /\ XrayIdle /\ SpeedIdle /\ MainIdle /\ TunnelIdle
    /\ ProbeIdle /\ HttpProbeIdle /\ RangesIdle /\ ConfigIdle /\ RandomIpsIdle
    /\ LoadIdle

\* rl.on("line", ...) of streamSubnets
OnLineOverlap ==
    /\ streamState = "open"
    /\ Len(fileLines) < MaxLines
    /\ \E line \in LabelledLines :
         /\ fileLines' = Append(fileLines, line)
         /\ IF line.kind \in {"blank", "comment"}
            THEN UNCHANGED cloudflareSubnets
            ELSE cloudflareSubnets' =
                   IF KeepOverlapping(ranges, extractCidr(line))
                   THEN Append(cloudflareSubnets, extractCidr(line))
                   ELSE cloudflareSubnets
    /\ processed' = processed + 1
    /\ UNCHANGED <<streamState, matchVars>>
    /\ UNCHANGED <<poolVars, xrVars, spVars, mnVars, tnVars, pbVars, hpVars,
                   rgVars, cfVars, grVars, ldVars>>

OverlapFilterNext ==
    \/ OnLineOverlap
    \/ OnClose

SpecOverlapFilter == OverlapFilterInit /\ [][OverlapFilterNext]_vars

\* the subnet of c is the whole IPv4 address space
CoversWholeSpace(c) ==
    /\ cidrToRange(c) # <<>>
    /\ cidrToRange(c)[1].start = 0 /\ cidrToRange(c)[1].end = ALL_ONES

\* the subnet of c has an address in common with an indexed range
OverlapsIndexed(c) ==
    /\ cidrToRange(c) # <<>>
    /\ \E k \in 1..Len(ranges) : rangesOverlap(cidrToRange(c)[1], ranges[k])

\* C36: with the overlap filter no subnet that covers the whole IPv4
\* address space is kept for scanning, however its line is written
\* (0.0.0.0/0, another address with prefix /0, with a leading label), and
\* every other line whose subnet overlaps an indexed range is kept.
C36_NoCatchAllKept ==
    /\ \A k \in 1..Len(cloudflareSubnets) :
         ~CoversWholeSpace(cloudflareSubnets[k])
    /\ \A k \in 1..Len(fileLines) :
         (/\ fileLines[k].kind = "cidr"
          /\ OverlapsIndexed(fileLines[k].cidr)
          /\ ~CoversWholeSpace(fileLines[k].cidr))
             => \E j \in 1..Len(cloudflareSubnets) :
                    cloudflareSubnets[j] = fileLines[k].cidr


\* ---- claims about the files of the large-file scanner -------------------

\* The positions of the scanned list whose subnet passed.
CleanPositions ==
    {j \in 1..Len(rgValid) : MeetsThresholds(rgAnswers[j], 1, 2, 3000)}

\* C37: at the end of a large-file run that found clean subnets,
\* clean-ips.txt and clean-ips-plain.txt list exactly the subnets that
\* passed, each once, in ascending order of average latency.
C37_CleanFilesByLatency ==
    rgPhase = "written" /\ CleanPositions # {} =>
        /\ Len(rgFile) = Cardinality(CleanPositions)
        /\ \E f \in [1..Len(rgFile) -> CleanPositions] :
             /\ \A a, b \in 1..Len(rgFile) : a # b => f[a] # f[b]
             /\ \A k \in 1..Len(rgFile) : rgFile[k] = rgValid[f[k]]
             /\ \A k \in 1..(Len(rgFile) - 1) : MeanLatencyAtMost(f[k], f[k + 1])



\* ========================================================================
\* SAMPLING A RANGE (getRandomIps of probe.ts and of scan-subnets.ts)
\* ========================================================================
MaxCount == 3       \* largest `count` asked for

\* numToIpv4 / fromNum: the parts of the address with number n
numToIpv4(n) == [k \in 1..AddrBits |-> (n \div Pow2(AddrBits - k)) % 2]

\* if (!seen.has(ipNum)) { seen.add(ipNum); ips.push(numToIpv4(ipNum)) }
PushEvenIfSeen(ips, seen, ipNum) == Append(ips, numToIpv4(ipNum))
PushUnlessSeen(ips, seen, ipNum) ==
    IF ipNum \in seen THEN ips ELSE Append(ips, numToIpv4(ipNum))

\* the bound of the loop counter: scan-subnets.ts takes
\* Math.min(count, rangeSize), probe.ts takes count
ActualCount(file, count, rangeSize) ==
    IF file = "scan-subnets.ts" THEN Min(count, rangeSize) ELSE count

RandomIpsInit ==
    /\ grFile \in {"probe.ts", "scan-subnets.ts"}
    /\ grCidr \in V4Cidrs \cup {BadCidr}
    /\ grCount \in 0..MaxCount
    /\ grI = 0
    /\ grSeen = {}
    /\ grIps = <<>>
    /\ grState = "init"
    /\ PoolIdle /\ MatchIdle /\ StreamIdle /\ XrayIdle /\ SpeedIdle /\ MainIdle
    /\ TunnelIdle /\ ProbeIdle /\ HttpProbeIdle /\ RangesIdle /\ ConfigIdle
    /\ LoadIdle

\* the range of grCidr and its size
GrRange == cidrToRange(grCidr)[1]
GrRangeSize == GrRange.end - GrRange.start + 1

\* the call up to the loop: a CIDR that does not parse gives []
GrEnter ==
    /\ grState = "init"
    /\ grState' = IF cidrToRange(grCidr) = <<>> THEN "returned" ELSE "loop"
    /\ UNCHANGED <<grFile, grCidr, grCount, grI, grSeen, grIps>>
    /\ UNCHANGED <<poolVars, matchVars, streamVars, xrVars, spVars, mnVars,
                   tnVars, pbVars, hpVars, rgVars, cfVars, ldVars>>

\* i < actualCount && seen.size < rangeSize
GrLoopGuard ==
    /\ grI < ActualCount(grFile, grCount, GrRangeSize)
    /\ Cardinality(grSeen) < GrRangeSize

\* one round of the loop: Math.floor(Math.random() * rangeSize) is any
\* offset below rangeSize
GrDraw ==
    /\ grState = "loop"
    /\ GrLoopGuard
    /\ \E offset \in 0..(GrRangeSize - 1) :
         LET ipNum == GrRange.start + offset
         IN  /\ grIps' = PushUnlessSeen(grIps, grSeen, ipNum)
             /\ grSeen' = grSeen \cup {ipNum}
    /\ grI' = grI + 1
    /\ UNCHANGED <<grFile, grCidr, grCount, grState>>
    /\ UNCHANGED <<poolVars, matchVars, streamVars, xrVars, spVars, mnVars,
                   tnVars, pbVars, hpVars, rgVars, cfVars, ldVars>>

\* the loop is left: return ips
GrReturn ==
    /\ grState = "loop"
    /\ ~GrLoopGuard
    /\ grState' = "returned"
    /\ UNCHANGED <<grFile, grCidr, grCount, grI, grSeen, grIps>>
    /\ UNCHANGED <<poolVars, matchVars, streamVars, xrVars, spVars, mnVars,
                   tnVars, pbVars, hpVars, rgVars, cfVars, ldVars>>

RandomIpsNext == GrEnter \/ GrDraw \/ GrReturn

SpecRandomIps == RandomIpsInit /\ [][RandomIpsNext]_vars

\* C39: for an IPv4 range and count >= 1, getRandomIps returns pairwise
\* distinct addresses that all lie in [start, end] of the range, at least
\* one and at most min(count, size of the range); a draw that repeats an
\* address is skipped, not retried, so fewer than that may be returned.
C39_DistinctSamplesInRange ==
    (grState = "returned" /\ grCidr.fam = "v4" /\ grCount >= 1) =>
        /\ \A a, b \in 1..Len(grIps) : a # b => grIps[a] # grIps[b]
        /\ \A a \in 1..Len(grIps) :
             /\ ipv4ToNum(grIps[a]) >= GrRange.start
             /\ ipv4ToNum(grIps[a]) <= GrRange.end
        /\ Len(grIps) >= 1
        /\ Len(grIps) <= Min(grCount, GrRangeSize)

\* three draws from a range of four addresses gave two addresses
C39_Witness ==
    /\ grState = "returned" /\ grCidr.fam = "v4"
    /\ grCount = 3 /\ GrRangeSize > 3
    /\ grI = 3 /\ Len(grIps) = 2
    /\ grIps[1] # grIps[2]



\* ========================================================================
\* EXPANDING A RANGE LIST INTO ADDRESSES (loadIPsFromRanges, parseCIDR,
\* chooseIPv4 of part_009)
\* ========================================================================
\* An address is "hi.lo": lo is the last octet, scaled to OctetBits bits,
\* hi the three octets before it, scaled to HighBits bits.

OctetBits == 2      \* width of the last octet (the source has 8 bits)
HighBits == 2       \* width of the first three octets (the source has 24)

IntBits == HighBits + OctetBits      \* 32: the width of << and &
BlockSize == Pow2(OctetBits)         \* 256
LastMax == BlockSize - 1             \* 255

\* An entry of `cidrs`: blank, a # comment, text that is no address, an
\* address without a prefix, or address/prefix
LoadLines ==
    [kind : {"blank", "comment", "bad"}, hi : {0}, lo : {0}, prefix : {0}]
      \cup [kind : {"bare"}, hi : 0..(Pow2(HighBits) - 1), lo : 0..LastMax,
            prefix : {0}]
      \cup [kind : {"cidr"}, hi : 0..(Pow2(HighBits) - 1), lo : 0..LastMax,
            prefix : 0..IntBits]

\* fixIP: an address without "/" gets "/32"
fixIP(line) ==
    IF line.kind = "bare" THEN [line EXCEPT !.kind = "cidr", !.prefix = IntBits]
    ELSE line

\* the number an address stands for
AddrNum(ip) == ip.hi * BlockSize + ip.lo

\* c.start() / c.end() of new IpCidr(cidr), as numbers
LdStart(c) == AddrNum(c) - (AddrNum(c) % Pow2(IntBits - c.prefix))
LdEnd(c) == LdStart(c) + Pow2(IntBits - c.prefix) - 1

\* toNum: (a << 24) | (b << 16) | (c << 8) | d, a signed 32-bit value
toNum(u) == IF u >= Pow2(IntBits - 1) THEN u - Pow2(IntBits) ELSE u

\* the bit pattern of the signed value n, as an unsigned number
Unsigned(n) == IF n < 0 THEN n + Pow2(IntBits) ELSE n

\* startNum & 0xffffff00
MaskLastOctet(n) == toNum(Unsigned(n) - (Unsigned(n) % BlockSize))

LoadInit ==
    /\ ldLine \in LoadLines
    /\ ldN = 0
    /\ ldIps = <<>>
    /\ ldState = "init"
    /\ PoolIdle /\ MatchIdle /\ StreamIdle /\ XrayIdle /\ SpeedIdle /\ MainIdle
    /\ TunnelIdle /\ ProbeIdle /\ HttpProbeIdle /\ RangesIdle /\ ConfigIdle
    /\ RandomIpsIdle

\* loadIPsFromRanges -> parseCIDR -> chooseIPv4 up to the loop: blank and
\* comment entries are skipped, text that is no CIDR gives nothing, a
\* prefix of 32 gives [start]
LdEnter ==
    /\ ldState = "init"
    /\ LET fixed == fixIP(ldLine)
       IN  IF fixed.kind # "cidr"
           THEN /\ ldState' = "returned" /\ UNCHANGED <<ldN, ldIps>>
           ELSE IF fixed.prefix >= IntBits
           THEN /\ ldIps' = <<[hi |-> LdStart(fixed) \div BlockSize,
                                lo |-> LdStart(fixed) % BlockSize]>>
                /\ ldState' = "returned" /\ UNCHANGED ldN
           ELSE /\ ldN' = MaskLastOctet(toNum(LdStart(fixed)))
                /\ ldState' = "loop" /\ UNCHANGED ldIps
    /\ UNCHANGED ldLine
    /\ UNCHANGED <<poolVars, matchVars, streamVars, xrVars, spVars, mnVars,
                   tnVars, pbVars, hpVars, rgVars, cfVars, grVars>>

\* endNum
LdEndNum == toNum(LdEnd(fixIP(ldLine)))

\* one round of for (let n = startNum; n <= endNum; n += 256): the last
\* octet is d plus any value up to maxLast
LdBlock ==
    /\ ldState = "loop"
    /\ ldN <= LdEndNum
    /\ LET d == Unsigned(ldN) % BlockSize
           maxLast == Min(LastMax, LdEndNum - ldN)
       IN  \E r \in 0..(IF maxLast > 0 THEN maxLast ELSE 0) :
               ldIps' = Append(ldIps, [hi |-> Unsigned(ldN) \div BlockSize,
                                       lo |-> Min(LastMax, d + r)])
    /\ ldN' = ldN + BlockSize
    /\ UNCHANGED <<ldLine, ldState>>
    /\ UNCHANGED <<poolVars, matchVars, streamVars, xrVars, spVars, mnVars,
                   tnVars, pbVars, hpVars, rgVars, cfVars, grVars>>

\* the loop is left: return result
LdReturn ==
    /\ ldState = "loop"
    /\ ldN > LdEndNum
    /\ ldState' = "returned"
    /\ UNCHANGED <<ldLine, ldN, ldIps>>
    /\ UNCHANGED <<poolVars, matchVars, streamVars, xrVars, spVars, mnVars,
                   tnVars, pbVars, hpVars, rgVars, cfVars, grVars>>

LoadNext == LdEnter \/ LdBlock \/ LdReturn

SpecLoad == LoadInit /\ [][LoadNext]_vars

\* C40: every address loadIPsFromRanges produces for an IPv4 CIDR lies
\* inside [start, end] of that CIDR, for every prefix length, those longer
\* than /24 with a non-zero last octet included; an address without a
\* prefix yields exactly that address.
C40_AddressesInsideCidr ==
    /\ ldLine.kind \in {"bare", "cidr"} =>
         \A k \in 1..Len(ldIps) :
             /\ AddrNum(ldIps[k]) >= LdStart(fixIP(ldLine))
             /\ AddrNum(ldIps[k]) <= LdEnd(fixIP(ldLine))
    /\ (ldLine.kind = "bare" /\ ldState = "returned") =>
         ldIps = <<[hi |-> ldLine.hi, lo |-> ldLine.lo]>>

====
